---- MODULE Spec2Model ----
(***************************************************************************)
(* Content scraper: scoring, LLM result normalisation and the three        *)
(* ingestion pipelines (blog, LinkedIn, Reddit) with their persistence.    *)
(*                                                                         *)
(* Numbers of the program are IEEE-754 doubles.  Scores and authorities    *)
(* are drawn from the grid of hundredths; a double on that grid is written *)
(* as the integer count of hundredths, and the arithmetic of               *)
(* calculatePostScore is carried out on exact dyadic values m * 2^e with   *)
(* round-to-nearest-even after every operation, as the hardware does.      *)
(***************************************************************************)
EXTENDS Integers, Naturals, Sequences, FiniteSets, TLC

\* ------------------------------------------------------------------------
\* Bounds of the model
\* ------------------------------------------------------------------------
\* scores and authorities of the scoring specification: 0 .. GridMax hundredths
GridMax == 100

\* ------------------------------------------------------------------------
\* Unbounded naturals as little-endian limb sequences (base 2^14), needed
\* because a product of two 53-bit significands has 106 bits.
\* ------------------------------------------------------------------------
Base == 128 * 128
LimbBits == 7 + 7

RECURSIVE Pow2(_)
Pow2(k) == IF k = 0 THEN 1 ELSE 2 * Pow2(k - 1)

RECURSIVE BigFromInt(_)
BigFromInt(n) == IF n = 0 THEN << >> ELSE <<n % Base>> \o BigFromInt(n \div Base)

RECURSIVE BigToInt(_)
BigToInt(a) == IF a = << >> THEN 0 ELSE Head(a) + Base * BigToInt(Tail(a))

RECURSIVE BigNorm(_)
BigNorm(a) ==
  IF a = << >> THEN << >>
  ELSE IF a[Len(a)] = 0 THEN BigNorm(SubSeq(a, 1, Len(a) - 1))
  ELSE a

RECURSIVE BigAddC(_, _, _)
BigAddC(a, b, c) ==
  IF a = << >> /\ b = << >> THEN (IF c = 0 THEN << >> ELSE <<c>>)
  ELSE LET x == IF a = << >> THEN 0 ELSE Head(a)
           y == IF b = << >> THEN 0 ELSE Head(b)
           s == x + y + c
       IN <<s % Base>> \o BigAddC(IF a = << >> THEN << >> ELSE Tail(a),
                                  IF b = << >> THEN << >> ELSE Tail(b),
                                  s \div Base)

BigAdd(a, b) == BigAddC(a, b, 0)

RECURSIVE BigMulSmallC(_, _, _)
BigMulSmallC(a, s, c) ==
  IF a = << >> THEN (IF c = 0 THEN << >> ELSE <<c>>)
  ELSE LET p == Head(a) * s + c
       IN <<p % Base>> \o BigMulSmallC(Tail(a), s, p \div Base)

RECURSIVE BigMul(_, _)
BigMul(a, b) ==
  IF b = << >> \/ a = << >> THEN << >>
  ELSE BigAdd(BigMulSmallC(a, Head(b), 0), <<0>> \o BigMul(a, Tail(b)))

\* quotient and remainder of a by a divisor d <= Base
RECURSIVE BigDivRem(_, _)
BigDivRem(a, d) ==
  IF a = << >> THEN [q |-> << >>, r |-> 0]
  ELSE LET hi == BigDivRem(Tail(a), d)
           cur == hi.r * Base + Head(a)
       IN [q |-> <<cur \div d>> \o hi.q, r |-> cur % d]

RECURSIVE Zeros(_)
Zeros(n) == IF n = 0 THEN << >> ELSE <<0>> \o Zeros(n - 1)

BigShl(a, k) ==
  IF a = << >> THEN << >>
  ELSE Zeros(k \div LimbBits) \o BigMulSmallC(a, Pow2(k % LimbBits), 0)

BigShr(a, k) ==
  LET n == k \div LimbBits
  IN IF n >= Len(a) THEN << >>
     ELSE BigNorm(BigDivRem(SubSeq(a, n + 1, Len(a)), Pow2(k % LimbBits)).q)

RECURSIVE SmallBitLen(_)
SmallBitLen(n) == IF n = 0 THEN 0 ELSE 1 + SmallBitLen(n \div 2)

BigBitLen(a) ==
  LET b == BigNorm(a)
  IN IF b = << >> THEN 0 ELSE LimbBits * (Len(b) - 1) + SmallBitLen(b[Len(b)])

BigBit(a, k) ==
  LET i == k \div LimbBits + 1
  IN IF i > Len(a) THEN 0 ELSE (a[i] \div Pow2(k % LimbBits)) % 2

\* some bit of a below position k is set
BigLowNonzero(a, k) ==
  LET n == k \div LimbBits
  IN \/ \E i \in 1..n : i <= Len(a) /\ a[i] # 0
     \/ n + 1 <= Len(a) /\ a[n + 1] % Pow2(k % LimbBits) # 0

\* ------------------------------------------------------------------------
\* IEEE-754 binary64 on non-negative values: [m, e] stands for m * 2^e
\* ------------------------------------------------------------------------
\* significand width of a JavaScript number
MantissaBits == 53

\* round to nearest, ties to even, to a 53-bit significand
Round53(v) ==
  LET L == BigBitLen(v.m)
  IN IF L <= MantissaBits THEN [m |-> BigNorm(v.m), e |-> v.e]
     ELSE LET s == L - MantissaBits
              q == BigShr(v.m, s)
              guard == BigBit(v.m, s - 1)
              sticky == BigLowNonzero(v.m, s - 1)
              up == guard = 1 /\ (sticky \/ BigBit(q, 0) = 1)
          IN [m |-> IF up THEN BigAdd(q, <<1>>) ELSE q, e |-> v.e + s]

FMul(x, y) == Round53([m |-> BigMul(x.m, y.m), e |-> x.e + y.e])

FAdd(x, y) ==
  LET e == IF x.e < y.e THEN x.e ELSE y.e
  IN Round53([m |-> BigAdd(BigShl(x.m, x.e - e), BigShl(y.m, y.e - e)), e |-> e])

\* the double nearest to the decimal n/d (a numeric literal or a JSON number)
FromRatio(n, d) ==
  IF n = 0 THEN [m |-> << >>, e |-> 0]
  ELSE LET dr == BigDivRem(BigShl(BigFromInt(n), 64), d)
           q2 == BigShl(BigNorm(dr.q), 1)
       IN Round53([m |-> IF dr.r = 0 THEN q2 ELSE BigAdd(q2, <<1>>), e |-> 0 - 65])

\* Math.round: the nearest integer, ties towards +infinity
MathRound(v) ==
  IF v.e >= 0 THEN BigToInt(BigShl(v.m, v.e))
  ELSE BigToInt(BigShr(BigAdd(v.m, BigShl(<<1>>, (0 - v.e) - 1)), 0 - v.e))

Hundredth(i) == FromRatio(i, 100)
QualityWeight == FromRatio(7, 10)
AuthorityWeight == FromRatio(3, 10)
Hundred == [m |-> BigFromInt(100), e |-> 0]

\* Not-a-Number, outside the grid
NaN == 0 - 9999

\* calculatePostScore: Math.round((q * 0.7 + a * 0.3) * 100) / 100.
\* The rounded integer n is returned; n / 100 is the double of the literal
\* n hundredths because IEEE division is correctly rounded.
calculatePostScore(qualityScore, authority) ==
  IF qualityScore = NaN \/ authority = NaN THEN NaN
  ELSE MathRound(FMul(FAdd(FMul(Hundredth(qualityScore), QualityWeight),
                           FMul(Hundredth(authority), AuthorityWeight)),
                      Hundred))

\* 0.7 q + 0.3 a over the rationals is (7 q + 3 a) / 10 hundredths; rounded
\* to a whole number of hundredths, a tie going up (Math.round's rule)
ExactRound2(q, a) == (7 * q + 3 * a + 5) \div 10

\* the same, a tie going to the even neighbour
ExactRound2Even(q, a) ==
  LET n == 7 * q + 3 * a
      f == n \div 10
  IN IF n % 10 > 5 \/ (n % 10 = 5 /\ f % 2 = 1) THEN f + 1 ELSE f

\* ------------------------------------------------------------------------
\* JavaScript values of the fields of a parsed LLM reply: [t, v] with
\* t = "num" (v hundredths), "numstr" (a string holding the number v),
\* "str" (any other non-empty string), "bool" (v = 1 for true), "undef"
\* (field missing) and "null".
\* ------------------------------------------------------------------------
JsNum(n) == [t |-> "num", v |-> n]
JsUndef == [t |-> "undef", v |-> 0]
JsNull == [t |-> "null", v |-> 0]
JsStr == [t |-> "str", v |-> 0]
JsNumStr(n) == [t |-> "numstr", v |-> n]
JsBool(b) == [t |-> "bool", v |-> IF b THEN 1 ELSE 0]

\* Boolean(x), also the test of x || y
JsTruthy(x) ==
  CASE x.t = "num" -> x.v # 0 /\ x.v # NaN
    [] x.t = "bool" -> x.v = 1
    [] x.t \in {"str", "numstr"} -> TRUE
    [] OTHER -> FALSE

\* x || 0
OrZero(x) == IF JsTruthy(x) THEN x ELSE JsNum(0)

\* ToNumber(x), in hundredths
ToNumber(x) ==
  CASE x.t \in {"num", "numstr"} -> x.v
    [] x.t = "bool" -> 100 * x.v
    [] x.t = "null" -> 0
    [] OTHER -> NaN

MathMin(x, y) == IF x = NaN \/ y = NaN THEN NaN ELSE IF x < y THEN x ELSE y
MathMax(x, y) == IF x = NaN \/ y = NaN THEN NaN ELSE IF x > y THEN x ELSE y

\* Math.max(0, Math.min(1, parsed.quality_score || 0))
ClampQuality(raw) == MathMax(0, MathMin(100, ToNumber(OrZero(raw))))

\* the result when JSON.parse or a field access throws inside the try block
DefaultAnalysis ==
  [is_relevant |-> FALSE, summary |-> "", key_points |-> "empty", quality_score |-> 0]

\* An LLM reply: text that does not parse ("unparseable"), that parses to
\* null ("null": reading a field of it throws), that parses to an object with
\* the raw fields rel, summary, kp and q ("object"), or the empty text
\* ("empty"); "throw" stands for a provider response that is not ok.
\* callLLM returns the text, or throws on a response that is not ok and on
\* an empty content.
LLMThrew == "LLMThrew"
callLLM(reply) == IF reply.shape \in {"throw", "empty"} THEN LLMThrew ELSE reply.shape

\* the analyze function rejected: the error of callLLM, outside its try block
AnalysisThrew ==
  [is_relevant |-> FALSE, summary |-> "thrown", key_points |-> "none", quality_score |-> 0 - 1]

Normalized(reply) ==
  [is_relevant |-> JsTruthy(reply.rel),
   summary |-> IF reply.summary = "undef" THEN "" ELSE reply.summary,
   key_points |-> IF reply.kp = "array" THEN "points" ELSE "empty",
   quality_score |-> ClampQuality(reply.q)]

analyzeArticle(reply) ==
  LET response == callLLM(reply)
  IN IF response = LLMThrew THEN AnalysisThrew
     ELSE IF response = "object" THEN Normalized(reply)
     ELSE DefaultAnalysis

analyzeLinkedInPost(reply) ==
  LET response == callLLM(reply)
  IN IF response = LLMThrew THEN AnalysisThrew
     ELSE IF response = "object" THEN Normalized(reply)
     ELSE DefaultAnalysis

analyzeRedditPost(reply) ==
  LET response == callLLM(reply)
  IN IF response = LLMThrew THEN AnalysisThrew
     ELSE IF response = "object" THEN Normalized(reply)
     ELSE DefaultAnalysis

\* raw values of quality_score: below 0, inside [0,1], above 1 (1.4),
\* missing, null, numeric and non-numeric strings, a boolean
RawQuality ==
  {JsNum(0 - 20), JsNum(0), JsNum(5), JsNum(80), JsNum(100), JsNum(140),
   JsUndef, JsNull, JsStr, JsNumStr(50), JsBool(TRUE)}

RawRelevance == {JsBool(TRUE), JsBool(FALSE), JsUndef, JsStr, JsNum(0)}

Replies ==
  [shape : {"object"}, rel : RawRelevance, summary : {"s1", "undef"},
   kp : {"array", "other"}, q : RawQuality]
  \cup [shape : {"unparseable", "null", "empty", "throw"}, rel : {JsUndef},
        summary : {"undef"}, kp : {"other"}, q : {JsUndef}]

NoReply ==
  [shape |-> "none", rel |-> JsUndef, summary |-> "undef", kp |-> "other", q |-> JsUndef]

NoAnalysis ==
  [is_relevant |-> FALSE, summary |-> "none", key_points |-> "none", quality_score |-> 0 - 1]

\* ------------------------------------------------------------------------
\* Text gates and date filter  (days are the unit of time)
\* ------------------------------------------------------------------------
PageMinLength == 200
ArticleMinLength == 100
LinkedInMinLength == 50
WeekDays == 7
\* a gate that lets every text through
hasMinimumContent_open(length, minLength) == TRUE

hasMinimumContent(length, minLength) == length >= minLength
\* a date filter that accepts every date
isWithinLastWeek_open(date, today) == TRUE

\* date >= now - 7 days
isWithinLastWeek(date, today) == date >= today - WeekDays

\* a published_at is a day, NoDate (null) or BadDate (a string that is no date)
NoDate == 0 - 1
BadDate == 0 - 2

\* parseDate: null for a string that is no date
parseDate(dateStr) == IF dateStr = BadDate THEN NoDate ELSE dateStr

\* processArticle, step 5: the parsed published_at, or the current time
ResolveDate(publishedAt, today) ==
  IF publishedAt = NoDate THEN today
  ELSE IF parseDate(publishedAt) = NoDate THEN today
  ELSE parseDate(publishedAt)
\* the weighted score whatever the relevance
linkedInPostScore_unfiltered(isRelevant, qualityScore, authority) ==
  MathRound(FMul(FAdd(FMul(Hundredth(qualityScore), QualityWeight),
                      FMul(Hundredth(authority), AuthorityWeight)),
                 Hundred))

\* Math.round((q * 0.7 + a * 0.3) * 100) when relevant, else 0
linkedInPostScore(isRelevant, qualityScore, authority) ==
  IF ~isRelevant THEN 0
  ELSE IF qualityScore = NaN \/ authority = NaN THEN NaN
  ELSE MathRound(FMul(FAdd(FMul(Hundredth(qualityScore), QualityWeight),
                           FMul(Hundredth(authority), AuthorityWeight)),
                      Hundred))

\* processRedditPosts: postScore = analysis.quality_score
redditPostScore(qualityScore, authority) == qualityScore

\* ------------------------------------------------------------------------
\* Tables of the remote database, as sequences of rows in insertion order
\* ------------------------------------------------------------------------
ArticleUrls == {"u1", "u2"}
PostIds == {"l1", "l2"}
Permalinks == {"p1", "p2"}
Texts == {"t1", "t2"}

\* the content_hash of a row whose INSERT names no content_hash column
NullHash == <<"null", "">>

\* digest of title + " " + content
generateContentHash(text) == <<"digest", text>>

\* a plain INSERT, without the ON CONFLICT clause
upsertArticle_plainInsert(table, input) ==
  Append(table, [url |-> input.url, summary |-> input.summary,
                 post_score |-> input.post_score])

\* INSERT ... ON CONFLICT (article_url) DO UPDATE SET article_title, summary,
\* key_points, post_score, updated_at
upsertArticle(table, input) ==
  IF \E i \in DOMAIN table : table[i].url = input.url
  THEN [i \in DOMAIN table |->
          IF table[i].url = input.url
          THEN [table[i] EXCEPT !.summary = input.summary,
                                !.post_score = input.post_score]
          ELSE table[i]]
  ELSE Append(table, [url |-> input.url, summary |-> input.summary,
                      post_score |-> input.post_score])

\* SELECT COUNT(*) ... WHERE post_id = ...; a failed query answers false
linkedInContentExistsByPostId(table, postId, queryOk) ==
  queryOk /\ \E i \in DOMAIN table : table[i].post_id = postId

\* INSERT INTO linkedin_content_scrape (...) VALUES (...)
createLinkedInContent(table, input) ==
  Append(table, [post_id |-> input.post_id, post_score |-> input.post_score])

\* SELECT COUNT(*) ... WHERE permalink = ...; a failed query answers false
redditContentExistsByPermalink(table, permalink, queryOk) ==
  queryOk /\ \E i \in DOMAIN table : table[i].permalink = permalink

\* the same query on content_hash
redditContentExistsByHash(table, contentHash, queryOk) ==
  queryOk /\ \E i \in DOMAIN table : table[i].content_hash = contentHash

\* INSERT INTO reddit_content_scrape (title, author, subreddit, selftext, url,
\* permalink, score, num_comments, created_at, type, authority, post_score,
\* week_date): the content_hash of the input is not among the columns
createRedditContent(table, input) ==
  Append(table, [permalink |-> input.permalink, text |-> input.text,
                 post_score |-> input.post_score, content_hash |-> NullHash])

\* ------------------------------------------------------------------------
\* State
\* ------------------------------------------------------------------------
VARIABLES
  sq, sa, sres,            \* scoring: the inputs and the result of calculatePostScore
  fn, llmReply, analysis,  \* analysis: the function, the LLM reply and its result
  now,                     \* the current day
  articles,                \* table contents (blog articles)
  linkedin,                \* table linkedin_content_scrape
  reddit,                  \* table reddit_content_scrape
  served,                  \* the source kind the runs of this behaviour scrape
  run,                     \* position of the running batch function
  last,                    \* what the latest loop iteration did
  fetchCall,               \* the frame of a fetchWithRetry call
  parseCall,               \* a document, its three wrappings and their parse results
  queryCall,               \* a response to DatabaseClient.query and the QueryResult
  sqlCall,                 \* a persistence function, its string argument and its SQL text
  pollCall,                \* the frame of a fetchLinkedInPosts call
  weekCall,                \* an instant and the week labels computed for it
  sourceRows,              \* the sources written through the endpoints, the CLI and the seeds
  deleteCall,              \* the frame of a deleteBlog call and the rows it works on
  batchCall,               \* the frame of a processRedditPosts call
  raceCall,                \* two concurrent runs over one post and the table they share
  rangeCall,               \* a post_score computed for a caller-supplied authority
  upsertCall               \* an article row and the upsertArticle that hits it

vars ==
  <<sq, sa, sres, fn, llmReply, analysis, now, articles, linkedin, reddit, served, run, last,
    fetchCall, parseCall, queryCall, sqlCall,
    pollCall, weekCall, sourceRows, deleteCall, batchCall, raceCall, rangeCall, upsertCall>>

scoreVars == <<sq, sa, sres>>
analyzeVars == <<fn, llmReply, analysis>>
pipelineVars == <<now, articles, linkedin, reddit, served, run, last>>
earlyVars == <<fetchCall, parseCall, queryCall, sqlCall>>
laterVars ==
  <<pollCall, weekCall, sourceRows, deleteCall, batchCall, raceCall, rangeCall, upsertCall>>
unitVars == <<earlyVars, laterVars>>

\* bounds of the pipeline model
MaxSources == 2
MaxItems == 2
MaxRows == 2
MaxTicks == 1

StartDay == WeekDays + 3

NoLast ==
  [op |-> "none", key |-> "none", len |-> 0 - 1, llm |-> 0, rel |-> "none",
   call |-> "none", ok |-> FALSE, existed |-> FALSE, q |-> 0 - 1, a |-> 0 - 1,
   score |-> 0 - 1, summary |-> "none", resolved |-> 0 - 1, at |-> 0 - 1,
   threw |-> FALSE, source |-> "none", j |-> 0, i |-> 0, slept |-> 0]

\* listing: the sources of the run, sources: those not yet finished;
\* count: the length of the item list of the current source, left: the items
\* of it not yet finished;
\* slept: the milliseconds slept after the source finished last;
\* missing: the credential absent from the environment of the run;
\* needed: an operation of the run has asked for the absent credential
IdleRun ==
  [pc |-> "idle", listing |-> << >>, sources |-> << >>, count |-> 0, left |-> 0,
   lost |-> FALSE, returned |-> "none", missing |-> "none", needed |-> FALSE,
   slept |-> 0]

\* a fetchWithRetry frame: the loop variable, the trace of attempts and
\* sleeps, and how the call ended
NoFetch ==
  [pc |-> "idle", maxRetries |-> 0, attempt |-> 0, trace |-> << >>,
   result |-> [kind |-> "none", of |-> 0 - 1]]

\* strings are sequences of characters; "sp" and "nl" are a space and a newline
NoParsed == [ok |-> FALSE, value |-> <<"none">>]
NoParse ==
  [doc |-> << >>, pre |-> << >>, post |-> << >>, ipre |-> << >>, ipost |-> << >>,
   bare |-> NoParsed, json |-> NoParsed, plain |-> NoParsed]

FetchIdle == fetchCall = NoFetch
ParseIdle == parseCall = NoParse
\* a JSON-RPC response envelope: the error member, the structured payload
\* (result.structuredContent.result[0].results), result.isError and the text
\* payload (result.content[0].text)
NoEnvelope == [error |-> FALSE, structured |-> "none", isError |-> FALSE, text |-> "void"]
NoQueryResult == [success |-> FALSE, data |-> "none", error |-> "unset"]
NoQuery ==
  [http |-> "none", contentType |-> "none", env |-> NoEnvelope, framing |-> "none",
   out |-> NoQueryResult, plain |-> NoQueryResult]

QueryIdle == queryCall = NoQuery
NoSql == [fn |-> "none", value |-> << >>, text |-> << >>]
SqlIdle == sqlCall = NoSql
NoPoll ==
  [pc |-> "idle", status |-> "none", attempts |-> 0, polls |-> 0, dataset |-> FALSE,
   result |-> "none"]
PollIdle == pollCall = NoPoll
NoLabel == <<"none">>
NoWeek ==
  [year |-> 0, jan1Day |-> 0, day |-> 0, at |-> 0, other |-> 0,
   blog |-> NoLabel, blogAgain |-> NoLabel, blogOther |-> NoLabel,
   reddit |-> NoLabel, redditAgain |-> NoLabel]
WeekIdle == weekCall = NoWeek
SourcesIdle == sourceRows = << >>
NoDelete ==
  [pc |-> "idle", id |-> "none", blogs |-> {}, contents |-> << >>,
   deleted |-> FALSE]
DeleteIdle == deleteCall = NoDelete
NoBatch ==
  [pc |-> "idle", posts |-> 0, done |-> 0, postsSaved |-> 0, postsRelevant |-> 0,
   postsSkipped |-> 0, errors |-> 0, stored |-> 0, insertFailed |-> 0]
BatchIdle == batchCall = NoBatch
NoRaceRun == [at |-> 1, pc |-> "check"]
NoRace == [pc |-> "idle", kind |-> "none", rows |-> << >>, A |-> NoRaceRun, B |-> NoRaceRun]
RaceIdle == raceCall = NoRace
NoRange ==
  [pc |-> "idle", route |-> "none", body |-> JsUndef, authority |-> 0,
   rel |-> FALSE, q |-> 0, scale |-> "none", written |-> FALSE, score |-> 0]
RangeIdle == rangeCall = NoRange
NoUpsert ==
  [table |-> "none", rows |-> << >>, before |-> << >>, firsts |-> << >>,
   calls |-> 0, hit |-> 0, input |-> << >>]
UpsertIdle == upsertCall = NoUpsert
LaterIdle ==
  /\ PollIdle /\ WeekIdle /\ SourcesIdle /\ DeleteIdle
  /\ BatchIdle /\ RaceIdle /\ RangeIdle /\ UpsertIdle
UnitIdle == FetchIdle /\ ParseIdle /\ QueryIdle /\ SqlIdle /\ LaterIdle

ScoreIdle == sq = 0 /\ sa = 0 /\ sres = 0 - 1
AnalyzeIdle == fn = "none" /\ llmReply = NoReply /\ analysis = NoAnalysis
PipelineIdle ==
  /\ now = StartDay
  /\ articles = << >>
  /\ linkedin = << >>
  /\ reddit = << >>
  /\ served = "none"
  /\ run = IdleRun
  /\ last = NoLast

\* ------------------------------------------------------------------------
\* Scoring specification: calculatePostScore on every grid point
\* ------------------------------------------------------------------------
InitScore ==
  /\ sq \in 0..GridMax
  /\ sa \in 0..GridMax
  /\ sres = 0 - 1
  /\ AnalyzeIdle
  /\ PipelineIdle
  /\ UnitIdle

CalcScore ==
  /\ sres = 0 - 1
  /\ sres' = calculatePostScore(sq, sa)
  /\ UNCHANGED <<sq, sa, analyzeVars, pipelineVars, unitVars>>

NextScore == CalcScore

SpecScore == InitScore /\ [][NextScore]_vars

\* C1: for every q and a on the grid of hundredths of [0,1],
\* calculatePostScore(q, a) is 0.7 q + 0.3 a rounded to two decimals
\* (whichever way a tie is broken, up or to even).
C1_ScoreIsRounded ==
  (sres # 0 - 1 /\ sq <= 100 /\ sa <= 100) =>
    sres \in {ExactRound2(sq, sa), ExactRound2Even(sq, sa)}

\* ------------------------------------------------------------------------
\* Analysis specification: the three analyze functions on every reply
\* ------------------------------------------------------------------------
InitAnalyze ==
  /\ fn \in {"analyzeArticle", "analyzeLinkedInPost", "analyzeRedditPost"}
  /\ llmReply \in Replies
  /\ analysis = NoAnalysis
  /\ ScoreIdle
  /\ PipelineIdle
  /\ UnitIdle

Analyze ==
  /\ analysis = NoAnalysis
  /\ analysis' = CASE fn = "analyzeArticle" -> analyzeArticle(llmReply)
                   [] fn = "analyzeLinkedInPost" -> analyzeLinkedInPost(llmReply)
                   [] OTHER -> analyzeRedditPost(llmReply)
  /\ UNCHANGED <<fn, llmReply, scoreVars, pipelineVars, unitVars>>

NextAnalyze == Analyze

SpecAnalyze == InitAnalyze /\ [][NextAnalyze]_vars

\* C3: whatever the model supplies as quality_score, the quality_score of
\* the result of the three analyze functions lies in [0,1].
C3_QualityClamped ==
  (analysis # NoAnalysis /\ analysis # AnalysisThrew) =>
    (0 <= analysis.quality_score /\ analysis.quality_score <= 100)

\* C13: a reply that is empty, does not parse or parses to null makes the
\* three analyze functions return the negative default; none of them throws.
C13_MalformedAbsorbed ==
  (analysis # NoAnalysis /\ llmReply.shape \in {"unparseable", "null", "empty"}) =>
    analysis = DefaultAnalysis

\* ------------------------------------------------------------------------
\* fetchWithRetry: one call, for every maxRetries and every sequence of
\* attempt outcomes.  An entry of the trace is <<"attempt", outcome>> or
\* <<"sleep", ms>>; a result names the attempt whose response was returned
\* or whose error was thrown (GenericError: the Error made after the loop).
\* ------------------------------------------------------------------------
MaxRetriesBound == 4
GenericError == 0 - 2
FetchOutcomes == {"2xx", "non2xx", "error"}

\* const delays = [1000, 2000, 3000]
delays == <<1000, 2000, 3000>>

\* delays[attempt]; undefined past the end, which setTimeout takes as 0
DelayOf(attempt) == IF attempt + 1 \in DOMAIN delays THEN delays[attempt + 1] ELSE 0

Retry(f, outcome) ==
  [f EXCEPT !.trace = f.trace \o << <<"attempt", outcome>>, <<"sleep", DelayOf(f.attempt)>> >>,
            !.attempt = @ + 1]

Finish(f, outcome, kind) ==
  [f EXCEPT !.trace = Append(f.trace, <<"attempt", outcome>>),
            !.pc = "done",
            !.result = [kind |-> kind, of |-> f.attempt]]

\* a catch branch that throws the Error of the end of the function
onError_generic(f) ==
  IF f.attempt < f.maxRetries THEN Retry(f, "error")
  ELSE [Finish(f, "error", "throw") EXCEPT !.result.of = GenericError]

\* the catch branch of the loop body
onError(f) ==
  IF f.attempt < f.maxRetries THEN Retry(f, "error")
  ELSE Finish(f, "error", "throw")

\* a try branch that retries without sleeping
onResponse_noSleep(f, ok) ==
  IF ok THEN Finish(f, "2xx", "return")
  ELSE IF f.attempt < f.maxRetries
  THEN [f EXCEPT !.trace = Append(f.trace, <<"attempt", "non2xx">>), !.attempt = @ + 1]
  ELSE Finish(f, "non2xx", "return")

\* the try branch of the loop body, after fetch resolved
onResponse(f, ok) ==
  IF ok THEN Finish(f, "2xx", "return")
  ELSE IF f.attempt < f.maxRetries THEN Retry(f, "non2xx")
  ELSE Finish(f, "non2xx", "return")

InitFetch ==
  /\ ScoreIdle
  /\ AnalyzeIdle
  /\ PipelineIdle
  /\ UnitIdle

\* fetchWithRetry(url, options, maxRetries) is called
fetchWithRetry ==
  /\ fetchCall.pc = "idle"
  /\ \E maxRetries \in (0 - 1)..MaxRetriesBound :
       fetchCall' = [NoFetch EXCEPT !.pc = "loop", !.maxRetries = maxRetries]
  /\ UNCHANGED <<scoreVars, analyzeVars, pipelineVars, parseCall, queryCall, sqlCall, laterVars>>

\* one iteration of the loop
fetchAttempt ==
  /\ fetchCall.pc = "loop"
  /\ fetchCall.attempt <= fetchCall.maxRetries
  /\ \E outcome \in FetchOutcomes :
       fetchCall' = IF outcome = "error" THEN onError(fetchCall)
                    ELSE onResponse(fetchCall, outcome = "2xx")
  /\ UNCHANGED <<scoreVars, analyzeVars, pipelineVars, parseCall, queryCall, sqlCall, laterVars>>

\* the loop ends without a return or a throw from its body
fetchLoopExit ==
  /\ fetchCall.pc = "loop"
  /\ fetchCall.attempt > fetchCall.maxRetries
  /\ fetchCall' = [fetchCall EXCEPT !.pc = "done",
                                    !.result = [kind |-> "throw", of |-> GenericError]]
  /\ UNCHANGED <<scoreVars, analyzeVars, pipelineVars, parseCall, queryCall, sqlCall, laterVars>>

NextFetch == fetchWithRetry \/ fetchAttempt \/ fetchLoopExit

SpecFetch == InitFetch /\ [][NextFetch]_vars

Attempts(f) == {i \in DOMAIN f.trace : f.trace[i][1] = "attempt"}
LastOutcome(f) == f.trace[Len(f.trace)][2]

\* C11: when the call has ended and every one of its maxRetries + 1 attempts
\* failed at transport level, the call threw the error of the last attempt.
C11_RethrowsLastError ==
  (fetchCall.pc = "done" /\ Attempts(fetchCall) # {}
     /\ \A i \in Attempts(fetchCall) : fetchCall.trace[i][2] = "error") =>
    /\ Cardinality(Attempts(fetchCall)) = fetchCall.maxRetries + 1
    /\ fetchCall.result = [kind |-> "throw", of |-> fetchCall.maxRetries]

C11_Witness ==
  /\ fetchCall.pc = "done"
  /\ fetchCall.maxRetries = 3
  /\ Cardinality(Attempts(fetchCall)) = 4
  /\ \A i \in Attempts(fetchCall) : fetchCall.trace[i][2] = "error"

\* C12: a call makes at most maxRetries + 1 attempts, every attempt but the
\* last is followed by a sleep before the next one, a 2xx attempt is the
\* last one and its response is returned, and a call that ended without a
\* 2xx and whose final attempt produced a response returned that response.
C12_RetryDiscipline ==
  LET f == fetchCall
  IN /\ Cardinality(Attempts(f)) <= IF f.maxRetries < 0 THEN 0 ELSE f.maxRetries + 1
     /\ \A i \in Attempts(f) :
          /\ i < Len(f.trace) => f.trace[i + 1][1] = "sleep"
          /\ f.trace[i][2] = "2xx" =>
               (i = Len(f.trace) /\ f.result = [kind |-> "return", of |-> f.attempt])
     /\ \A i \in DOMAIN f.trace :
          (f.trace[i][1] = "sleep" /\ i < Len(f.trace)) => f.trace[i + 1][1] = "attempt"
     /\ (f.pc = "done" /\ Attempts(f) # {} /\ LastOutcome(f) = "non2xx") =>
          f.result = [kind |-> "return", of |-> f.maxRetries]

C12_Witness ==
  /\ fetchCall.pc = "done"
  /\ fetchCall.maxRetries = 2
  /\ Len(fetchCall.trace) = 5
  /\ fetchCall.trace[1][2] = "error"
  /\ fetchCall.trace[3][2] = "non2xx"
  /\ LastOutcome(fetchCall) = "non2xx"

\* ------------------------------------------------------------------------
\* parseJsonResponse on a JSON document, bare and inside the two fences
\* ------------------------------------------------------------------------
\* "bt" is a backtick
Whitespace == {"sp", "nl"}
Fence == <<"bt", "bt", "bt">>
JsonFence == <<"bt", "bt", "bt", "j", "s", "o", "n">>

\* String.prototype.trim
RECURSIVE TrimStart(_)
TrimStart(str) ==
  IF str # << >> /\ Head(str) \in Whitespace THEN TrimStart(Tail(str)) ELSE str

RECURSIVE TrimEnd(_)
TrimEnd(str) ==
  IF str # << >> /\ str[Len(str)] \in Whitespace
  THEN TrimEnd(SubSeq(str, 1, Len(str) - 1))
  ELSE str

Trim(str) == TrimEnd(TrimStart(str))

StartsWith(str, prefix) ==
  Len(str) >= Len(prefix) /\ SubSeq(str, 1, Len(prefix)) = prefix

EndsWith(str, suffix) ==
  Len(str) >= Len(suffix) /\ SubSeq(str, Len(str) - Len(suffix) + 1, Len(str)) = suffix

\* str.slice(n) and str.slice(0, -n)
SliceFrom(str, n) == SubSeq(str, n + 1, Len(str))
SliceOffEnd(str, n) == SubSeq(str, 1, Len(str) - n)

\* JSON documents: {}, [1], 1, a string of three backticks, and an object
\* with the key json and that string as its value ("q" is a double quote)
JsonDocs ==
  { <<"{", "}">>,
    <<"[", "1", "]">>,
    <<"1">>,
    <<"q", "bt", "bt", "bt", "q">>,
    <<"{", "q", "j", "s", "o", "n", "q", ":", "q", "bt", "bt", "bt", "q", "}">> }

\* JSON.parse: the value of a document, a SyntaxError for any other text
JsonParse(str) ==
  IF str \in JsonDocs THEN [ok |-> TRUE, value |-> str]
  ELSE [ok |-> FALSE, value |-> <<"SyntaxError">>]

\* a parseJsonResponse that tests the plain fence first
parseJsonResponse_plainFirst(content) ==
  LET trimmed == Trim(content)
      opened == IF StartsWith(trimmed, Fence) THEN SliceFrom(trimmed, Len(Fence))
                ELSE trimmed
      closed == IF EndsWith(opened, Fence) THEN SliceOffEnd(opened, Len(Fence)) ELSE opened
  IN JsonParse(Trim(closed))

parseJsonResponse(content) ==
  LET trimmed == Trim(content)
      opened == IF StartsWith(trimmed, JsonFence) THEN SliceFrom(trimmed, Len(JsonFence))
                ELSE IF StartsWith(trimmed, Fence) THEN SliceFrom(trimmed, Len(Fence))
                ELSE trimmed
      closed == IF EndsWith(opened, Fence) THEN SliceOffEnd(opened, Len(Fence)) ELSE opened
  IN JsonParse(Trim(closed))

Paddings == {<< >>, <<"sp">>, <<"nl">>, <<"nl", "sp">>}

InitParse ==
  /\ \E doc \in JsonDocs, pre \in Paddings, post \in Paddings,
        ipre \in Paddings, ipost \in Paddings :
       parseCall = [NoParse EXCEPT !.doc = doc, !.pre = pre, !.post = post,
                                   !.ipre = ipre, !.ipost = ipost]
  /\ ScoreIdle
  /\ AnalyzeIdle
  /\ PipelineIdle
  /\ FetchIdle
  /\ QueryIdle
  /\ SqlIdle
  /\ LaterIdle

\* the document bare, in a json fence and in a plain fence, each with
\* the outer padding around it and the inner padding inside the fence
Parse ==
  /\ parseCall.bare = NoParsed
  /\ LET c == parseCall
         inner == c.ipre \o c.doc \o c.ipost
     IN parseCall' =
          [c EXCEPT
             !.bare = parseJsonResponse(c.pre \o c.doc \o c.post),
             !.json = parseJsonResponse(c.pre \o JsonFence \o inner \o Fence \o c.post),
             !.plain = parseJsonResponse(c.pre \o Fence \o inner \o Fence \o c.post)]
  /\ UNCHANGED <<scoreVars, analyzeVars, pipelineVars, fetchCall, queryCall, sqlCall, laterVars>>

NextParse == Parse

SpecParse == InitParse /\ [][NextParse]_vars

\* C14: a JSON document parses to the same value bare, inside a fence
\* opened by three backticks and json, and inside a fence opened by three
\* backticks alone, with or without whitespace around the document or the
\* fence.
C14_FenceInvariance ==
  parseCall.bare # NoParsed =>
    /\ parseCall.bare = [ok |-> TRUE, value |-> parseCall.doc]
    /\ parseCall.json = parseCall.bare
    /\ parseCall.plain = parseCall.bare

C14_Witness ==
  /\ parseCall.json.ok
  /\ parseCall.plain.ok
  /\ parseCall.doc = <<"q", "bt", "bt", "bt", "q">>
  /\ parseCall.pre = <<"nl", "sp">>
  /\ parseCall.ipost = << >>

\* ------------------------------------------------------------------------
\* DatabaseClient.query on one response.  A response text is a sequence of
\* lines [field, payload]: field is the prefix of the line ("" on a line of
\* plain JSON) and payload the pieces of JSON text after it.  An envelope is
\* written as two pieces; JSON.parse accepts a text whose pieces are exactly
\* those of one envelope.
\* ------------------------------------------------------------------------
Envelopes ==
  [error : BOOLEAN, structured : {"none", "rows"}, isError : BOOLEAN,
   text : {"none", "rows", "row", "errorObject", "plain"}]

\* a server notification sent ahead of the response
Notification == [error |-> FALSE, structured |-> "none", isError |-> FALSE, text |-> "note"]

Pieces(e) == << <<e, "head">>, <<e, "tail">> >>

RECURSIVE Concat(_)
Concat(seqs) == IF seqs = << >> THEN << >> ELSE Head(seqs) \o Concat(Tail(seqs))

SelectLines(lines, fields) == SelectSeq(lines, LAMBDA l : l.field \in fields)
Payloads(lines) == Concat([i \in DOMAIN lines |-> lines[i].payload])

\* JSON.parse of joined pieces
JsonParsePieces(pieces) ==
  IF \E e \in Envelopes : pieces = Pieces(e)
  THEN [ok |-> TRUE, env |-> CHOOSE e \in Envelopes : pieces = Pieces(e)]
  ELSE [ok |-> FALSE, env |-> NoEnvelope]

\* JSON.parse(text): a line with a field prefix is no JSON
JsonParseText(lines) ==
  IF \A i \in DOMAIN lines : lines[i].field = ""
  THEN JsonParsePieces(Payloads(lines))
  ELSE [ok |-> FALSE, env |-> NoEnvelope]

\* parseSSEResponse: the payloads of the data lines, appended to one another
parseSSEResponse(lines) ==
  LET data == Payloads(SelectLines(lines, {"data: ", "data:"}))
  IN IF data = << >> THEN JsonParseText(lines) ELSE JsonParsePieces(data)

Line(field, payload) == [field |-> field, payload |-> payload]

Framings == {"json", "jsonLines", "sse", "sseNoSpace", "sseLines", "sseBare", "sseTwoEvents"}

\* the text that carries envelope e under a framing
FrameText(framing, e) ==
  CASE framing = "json" -> << Line("", Pieces(e)) >>
    [] framing = "jsonLines" -> << Line("", <<Pieces(e)[1]>>), Line("", <<Pieces(e)[2]>>) >>
    [] framing = "sse" ->
         << Line("event: ", << >>), Line("data: ", Pieces(e)), Line("", << >>) >>
    [] framing = "sseNoSpace" ->
         << Line("event: ", << >>), Line("data:", Pieces(e)), Line("", << >>) >>
    [] framing = "sseLines" ->
         << Line("event: ", << >>), Line("data: ", <<Pieces(e)[1]>>),
            Line("data: ", <<Pieces(e)[2]>>), Line("", << >>) >>
    [] framing = "sseBare" -> << Line("data: ", Pieces(e)), Line("", << >>) >>
    [] OTHER ->
         << Line("event: ", << >>), Line("data: ", Pieces(Notification)), Line("", << >>),
            Line("event: ", << >>), Line("data: ", Pieces(e)), Line("", << >>) >>

Failed(kind) == [success |-> FALSE, data |-> "none", error |-> kind]
Rows(kind) == [success |-> TRUE, data |-> kind, error |-> "none"]

\* query after the envelope was parsed
QueryResultOf(e) ==
  IF e.error THEN Failed("rpc")
  ELSE IF e.structured # "none" THEN Rows("rows")
  ELSE IF e.text # "none"
  THEN IF e.text = "plain" THEN Rows("wrappedText")
       ELSE IF e.text = "errorObject" THEN Failed("payload")
       ELSE IF e.isError THEN Failed("isError")
       ELSE Rows(e.text)
  ELSE Rows("empty")

\* DatabaseClient.query: http is "ok", "non2xx" or "transport"
query(http, contentType, lines) ==
  IF http = "transport" THEN Failed("exception")
  ELSE IF http = "non2xx" THEN Failed("http")
  ELSE
    LET isSSE == \/ contentType = "text/event-stream"
                 \/ lines[1].field \in {"event: ", "data: ", "data:"}
        result == IF isSSE THEN parseSSEResponse(lines) ELSE JsonParseText(lines)
    IN IF ~result.ok THEN Failed("exception") ELSE QueryResultOf(result.env)

InitQuery ==
  /\ \E http \in {"ok", "non2xx", "transport"}, e \in Envelopes, framing \in Framings,
        contentType \in {"application/json", "text/event-stream"} :
       /\ (framing \in {"json", "jsonLines"}) = (contentType = "application/json")
       /\ queryCall = [NoQuery EXCEPT !.http = http, !.contentType = contentType,
                                      !.env = e, !.framing = framing]
  /\ ScoreIdle
  /\ AnalyzeIdle
  /\ PipelineIdle
  /\ FetchIdle
  /\ ParseIdle
  /\ SqlIdle
  /\ LaterIdle

\* the query on the framed response, and on the same envelope as one plain
\* JSON document
Query ==
  /\ queryCall.out = NoQueryResult
  /\ LET c == queryCall
     IN queryCall' =
          [c EXCEPT !.out = query(c.http, c.contentType, FrameText(c.framing, c.env)),
                    !.plain = query(c.http, "application/json", FrameText("json", c.env))]
  /\ UNCHANGED <<scoreVars, analyzeVars, pipelineVars, fetchCall, parseCall, sqlCall, laterVars>>

NextQuery == Query

SpecQuery == InitQuery /\ [][NextQuery]_vars

RemoteFailure(c) ==
  \/ c.http # "ok"
  \/ c.env.error
  \/ c.env.isError
  \/ (c.env.structured = "none" /\ c.env.text = "errorObject")

\* C15: a response that reports a failure (HTTP status, transport error,
\* JSON-RPC error member, isError flag, error-object payload) gives a
\* QueryResult with success = false.
C15_FailureIsReported ==
  (queryCall.out # NoQueryResult /\ RemoteFailure(queryCall)) => ~queryCall.out.success

\* C16: the QueryResult of an envelope framed as server-sent events is the
\* QueryResult of the same envelope sent as one JSON document.
C16_FramingIndependent ==
  queryCall.out # NoQueryResult => queryCall.out = queryCall.plain

\* ------------------------------------------------------------------------
\* SQL text of the persistence functions.  A string is a sequence of
\* characters, "qt" the single quote; "SQL" and "END" stand for the fixed
\* text of a statement before and after the place of the value.
\* ------------------------------------------------------------------------
MaxStrLen == 3
SqlChars == {"a", "sp", "qt"}
SqlStrings == UNION {[1..n -> SqlChars] : n \in 0..MaxStrLen}

\* value.replace(/'/g, "''")
RECURSIVE escapeString(_)
escapeString(value) ==
  IF value = << >> THEN << >>
  ELSE (IF Head(value) = "qt" THEN <<"qt", "qt">> ELSE <<Head(value)>>)
       \o escapeString(Tail(value))

\* toSqlValue on a string
toSqlValue(value) == <<"qt">> \o escapeString(value) \o <<"qt">>

\* ... WHERE article_url = '${escapeString(url)}'
articleExistsByUrlSql(url) == <<"SQL", "qt">> \o escapeString(url) \o <<"qt", "END">>

\* ... WHERE post_id = '${escapeString(postId)}'
linkedInContentExistsByPostIdSql(postId) ==
  <<"SQL", "qt">> \o escapeString(postId) \o <<"qt", "END">>

\* ... WHERE id = ${escapeString(id)} LIMIT 1
getArticleSql(id) == <<"SQL">> \o escapeString(id) \o <<"END">>

\* INSERT ... VALUES (..., ${toSqlValue(input.summary)}, ...)
upsertArticleSql(summary) == <<"SQL">> \o toSqlValue(summary) \o <<"END">>

SqlFunctions == {"articleExistsByUrl", "linkedInContentExistsByPostId", "getArticle",
                 "upsertArticle"}

SqlOf(f, value) ==
  CASE f = "articleExistsByUrl" -> articleExistsByUrlSql(value)
    [] f = "linkedInContentExistsByPostId" -> linkedInContentExistsByPostIdSql(value)
    [] f = "getArticle" -> getArticleSql(value)
    [] OTHER -> upsertArticleSql(value)

InitSql ==
  /\ \E f \in SqlFunctions, value \in SqlStrings :
       sqlCall = [NoSql EXCEPT !.fn = f, !.value = value]
  /\ ScoreIdle
  /\ AnalyzeIdle
  /\ PipelineIdle
  /\ FetchIdle
  /\ ParseIdle
  /\ QueryIdle
  /\ LaterIdle

\* the function builds its statement
BuildSql ==
  /\ sqlCall.text = << >>
  /\ sqlCall' = [sqlCall EXCEPT !.text = SqlOf(sqlCall.fn, sqlCall.value)]
  /\ UNCHANGED <<scoreVars, analyzeVars, pipelineVars, fetchCall, parseCall, queryCall, laterVars>>

NextSql == BuildSql

SpecSql == InitSql /\ [][NextSql]_vars

\* how an SQL reader takes the string literal that opens at text[start]: the
\* characters it denotes and the position of its closing quote (0: none)
RECURSIVE ReadLiteral(_, _, _)
ReadLiteral(text, i, acc) ==
  IF i > Len(text) THEN [value |-> acc, end |-> 0]
  ELSE IF text[i] # "qt" THEN ReadLiteral(text, i + 1, Append(acc, text[i]))
  ELSE IF i < Len(text) /\ text[i + 1] = "qt" THEN ReadLiteral(text, i + 2, Append(acc, "qt"))
  ELSE [value |-> acc, end |-> i]

\* C17: in the statement of every persistence function the string value
\* stands as a literal that opens with a single quote right after the fixed
\* text, denotes the value, and closes right before the rest of the
\* statement.
C17_ValueIsQuotedLiteral ==
  sqlCall.text # << >> =>
    /\ sqlCall.text[2] = "qt"
    /\ ReadLiteral(sqlCall.text, 3, << >>) =
         [value |-> sqlCall.value, end |-> Len(sqlCall.text) - 1]

\* ------------------------------------------------------------------------
\* fetchLinkedInPosts: start of the actor run, polling of its status, fetch
\* of the dataset
\* ------------------------------------------------------------------------
maxAttempts == 60

\* the statuses the actor API reports for a run
RunStatuses == {"READY", "RUNNING", "SUCCEEDED", "FAILED", "TIMED-OUT", "ABORTED"}

\* a loop that polls once more than maxAttempts
pollAgain_oneMore(f) == f.status = "RUNNING" /\ f.attempts <= maxAttempts

\* while (status === "RUNNING" && attempts < maxAttempts)
pollAgain(f) == f.status = "RUNNING" /\ f.attempts < maxAttempts

Thrown(f) == [f EXCEPT !.pc = "done", !.result = "throw"]

InitPoll == ScoreIdle /\ AnalyzeIdle /\ PipelineIdle /\ UnitIdle

\* fetchLinkedInPosts up to its loop: getApifyToken throws, the POST that
\* starts the run is not ok, or the run is started
fetchLinkedInPosts ==
  /\ pollCall.pc = "idle"
  /\ \E started \in BOOLEAN :
       pollCall' = IF started
                   THEN [pollCall EXCEPT !.pc = "polling", !.status = "RUNNING"]
                   ELSE Thrown(pollCall)
  /\ UNCHANGED <<scoreVars, analyzeVars, pipelineVars, earlyVars,
               weekCall, sourceRows, deleteCall, batchCall, raceCall, rangeCall, upsertCall>>

\* one iteration of the polling loop: sleep, attempts++, fetch of the status
pollStatus ==
  /\ pollCall.pc = "polling"
  /\ pollAgain(pollCall)
  /\ LET polled == [pollCall EXCEPT !.attempts = @ + 1, !.polls = @ + 1]
     IN \/ pollCall' = Thrown(polled)                  \* statusResponse not ok
        \/ \E status \in RunStatuses : pollCall' = [polled EXCEPT !.status = status]
  /\ UNCHANGED <<scoreVars, analyzeVars, pipelineVars, earlyVars,
               weekCall, sourceRows, deleteCall, batchCall, raceCall, rangeCall, upsertCall>>

\* after the loop: the status test, then the fetch of the dataset
fetchDataset ==
  /\ pollCall.pc = "polling"
  /\ ~pollAgain(pollCall)
  /\ IF pollCall.status # "SUCCEEDED"
     THEN pollCall' = Thrown(pollCall)
     ELSE \E ok \in BOOLEAN :
            pollCall' = [pollCall EXCEPT !.pc = "done", !.dataset = TRUE,
                                         !.result = IF ok THEN "posts" ELSE "throw"]
  /\ UNCHANGED <<scoreVars, analyzeVars, pipelineVars, earlyVars,
               weekCall, sourceRows, deleteCall, batchCall, raceCall, rangeCall, upsertCall>>

NextPoll == fetchLinkedInPosts \/ pollStatus \/ fetchDataset

\* every awaited fetch and sleep settles
SpecPoll == InitPoll /\ [][NextPoll]_vars /\ WF_vars(NextPoll)

\* C21: a call of fetchLinkedInPosts polls the status of the actor run at
\* most 60 times; it fetches the dataset only when the status it saw last is
\* SUCCEEDED; when it has ended with any other status, RUNNING after 60 polls
\* included, it has thrown; and every call that was started ends.
C21_PollTerminates ==
  /\ [](/\ pollCall.polls <= 60
        /\ pollCall.dataset => pollCall.status = "SUCCEEDED"
        /\ (pollCall.pc = "done" /\ pollCall.status # "SUCCEEDED") =>
             pollCall.result = "throw"
        /\ pollCall.result = "posts" => pollCall.dataset)
  /\ (pollCall.pc = "polling") ~> (pollCall.pc = "done")

C21_Witness ==
  /\ pollCall.pc = "done"
  /\ pollCall.polls = 60
  /\ pollCall.result = "posts"

\* ------------------------------------------------------------------------
\* The week labels: getPublicationWeek (blogs, LinkedIn) and getWeekDate
\* (Reddit).  A Date is read through getFullYear, getTime and the Date of
\* the local 1 January of its year; it is taken here as the year, the weekday
\* of that 1 January and the whole seconds elapsed since its local midnight,
\* in a time zone without clock changes.
\* ------------------------------------------------------------------------
MaxDay == 14
SecondsPerDay == 86400
DaysPerWeek == 7

\* Math.ceil(a / b) for a >= 0, b > 0
CeilDiv(a, b) == (a + b - 1) \div b

\* n.toString().padStart(2, "0"), as digits
PadStart2(n) == IF n < 10 THEN <<0, n>> ELSE <<n \div 10, n % 10>>

\* the template literal year-wNN
WeekLabel(year, weekNumber) == <<year, "-w">> \o PadStart2(weekNumber)

\* the Date of a timestamp in seconds: new Date(timestamp * 1000)
DateOf(year, jan1Day, timestamp) ==
  [year |-> year, jan1Day |-> jan1Day, sinceJan1 |-> timestamp]

\* getPublicationWeek(date)
getPublicationWeek(date) ==
  LET year == date.year
      pastSecondsOfYear == date.sinceJan1
      weekNumber ==
        CeilDiv(pastSecondsOfYear + (date.jan1Day + 1) * SecondsPerDay,
                DaysPerWeek * SecondsPerDay)
  IN WeekLabel(year, weekNumber)

\* a week function that leaves out the + 1
getWeekDate_noOffset(date) ==
  LET year == date.year
      weekNum ==
        CeilDiv(date.sinceJan1 + date.jan1Day * SecondsPerDay,
                DaysPerWeek * SecondsPerDay)
  IN WeekLabel(year, weekNum)

\* getWeekDate(timestamp), on the Date of the timestamp
getWeekDate(date) ==
  LET year == date.year
      weekNum ==
        CeilDiv(date.sinceJan1 + (date.jan1Day + 1) * SecondsPerDay,
                DaysPerWeek * SecondsPerDay)
  IN WeekLabel(year, weekNum)

\* times of a day, in seconds after local midnight
TimesOfDay == {0, 1, SecondsPerDay \div 2, SecondsPerDay - 1}

InitWeek ==
  /\ \E year \in {2026}, jan1Day \in 0..(DaysPerWeek - 1), day \in 0..MaxDay,
        at \in TimesOfDay, other \in TimesOfDay :
       weekCall = [NoWeek EXCEPT !.year = year, !.jan1Day = jan1Day, !.day = day,
                                 !.at = at, !.other = other]
  /\ ScoreIdle
  /\ AnalyzeIdle
  /\ PipelineIdle
  /\ FetchIdle
  /\ ParseIdle
  /\ QueryIdle
  /\ SqlIdle
  /\ PollIdle /\ SourcesIdle /\ DeleteIdle /\ BatchIdle /\ RaceIdle /\ RangeIdle
  /\ UpsertIdle

InstantOf(w, secondsOfDay) ==
  DateOf(w.year, w.jan1Day, w.day * SecondsPerDay + secondsOfDay)

\* the blog pipeline labels the instant, and another instant of the same day
LabelArticle ==
  /\ weekCall.blog = NoLabel
  /\ weekCall' =
       [weekCall EXCEPT !.blog = getPublicationWeek(InstantOf(weekCall, weekCall.at)),
                        !.blogOther =
                          getPublicationWeek(InstantOf(weekCall, weekCall.other))]
  /\ UNCHANGED <<scoreVars, analyzeVars, pipelineVars, earlyVars,
               pollCall, sourceRows, deleteCall, batchCall, raceCall, rangeCall, upsertCall>>

\* the Reddit pipeline labels the instant
LabelRedditPost ==
  /\ weekCall.reddit = NoLabel
  /\ weekCall' = [weekCall EXCEPT !.reddit = getWeekDate(InstantOf(weekCall, weekCall.at))]
  /\ UNCHANGED <<scoreVars, analyzeVars, pipelineVars, earlyVars,
               pollCall, sourceRows, deleteCall, batchCall, raceCall, rangeCall, upsertCall>>

\* both functions are called again on the instant
LabelAgain ==
  /\ weekCall.blog # NoLabel
  /\ weekCall.reddit # NoLabel
  /\ weekCall.blogAgain = NoLabel
  /\ weekCall' =
       [weekCall EXCEPT
          !.blogAgain = getPublicationWeek(InstantOf(weekCall, weekCall.at)),
          !.redditAgain = getWeekDate(InstantOf(weekCall, weekCall.at))]
  /\ UNCHANGED <<scoreVars, analyzeVars, pipelineVars, earlyVars,
               pollCall, sourceRows, deleteCall, batchCall, raceCall, rangeCall, upsertCall>>

NextWeek == LabelArticle \/ LabelRedditPost \/ LabelAgain

SpecWeek == InitWeek /\ [][NextWeek]_vars

C27_SameDaySameWeek ==
  weekCall.blog # NoLabel => weekCall.blog = weekCall.blogOther

\* ------------------------------------------------------------------------
\* The authority of a source: the writes of the blog endpoints, of the
\* set-authority command and of the seed functions.  Authorities are in
\* hundredths; sourceRows is the blog_sources table.
\* ------------------------------------------------------------------------
MaxBlogs == 2
BlogUrls == {"u1", "u2"}

\* body.authority of a request: absent, null, a string, a number
BodyAuthorities ==
  {JsUndef, JsNull, JsStr, JsNumStr(50),
   JsNum(0 - 1), JsNum(0), JsNum(25), JsNum(50), JsNum(100), JsNum(101), JsNum(500)}

\* the second argument of set-authority
AuthorityArgs == {JsStr, JsNumStr(0 - 10), JsNumStr(0), JsNumStr(80), JsNumStr(100),
                  JsNumStr(150)}

Priorities == {"critical", "high", "medium", "low", "other"}

\* priorityToAuthority
priorityToAuthority(priority) ==
  CASE priority = "critical" -> 100
    [] priority = "high" -> 80
    [] priority = "medium" -> 50
    [] priority = "low" -> 30
    [] OTHER -> 50

\* parseFloat of a command-line argument
parseFloat(x) == IF x.t = "numstr" THEN x.v ELSE NaN

\* a POST that only rejects negative authorities
postRejects_lowerOnly(authority) == authority < 0

\* POST /api/blogs: if (authority < 0 || authority > 1) return 400
postRejects(authority) == authority < 0 \/ authority > 100

\* createBlog: INSERT INTO blog_sources
createBlog(rows, input) == Append(rows, input)

\* updateBlog with an authority: UPDATE blog_sources SET authority WHERE id
updateBlog(rows, i, authority) == [rows EXCEPT ![i].authority = authority]

InitSources == ScoreIdle /\ AnalyzeIdle /\ PipelineIdle /\ UnitIdle

\* POST /api/blogs
blogsPOST ==
  /\ \E body \in [url : BlogUrls, authority : BodyAuthorities], stored \in BOOLEAN :
       LET authority == IF body.authority.t = "num" THEN body.authority.v ELSE 50
       IN IF postRejects(authority) \/ ~stored \/ Len(sourceRows) >= MaxBlogs
          THEN UNCHANGED sourceRows
          ELSE sourceRows' =
                 createBlog(sourceRows, [url |-> body.url, authority |-> authority])
  /\ UNCHANGED <<scoreVars, analyzeVars, pipelineVars, earlyVars,
               pollCall, weekCall, deleteCall, batchCall, raceCall, rangeCall, upsertCall>>

\* PUT /api/blogs/:id
blogsPUT ==
  /\ \E i \in DOMAIN sourceRows, authority \in BodyAuthorities, stored \in BOOLEAN :
       IF authority = JsUndef
       THEN UNCHANGED sourceRows                       \* no authority in the update
       ELSE IF authority.t # "num" \/ authority.v < 0 \/ authority.v > 100
       THEN UNCHANGED sourceRows                       \* 400
       ELSE IF ~stored THEN UNCHANGED sourceRows
       ELSE sourceRows' = updateBlog(sourceRows, i, authority.v)
  /\ UNCHANGED <<scoreVars, analyzeVars, pipelineVars, earlyVars,
               pollCall, weekCall, deleteCall, batchCall, raceCall, rangeCall, upsertCall>>

\* deno task scraper set-authority <blog_id> <authority>
setAuthority ==
  /\ \E i \in DOMAIN sourceRows, authorityStr \in AuthorityArgs, stored \in BOOLEAN :
       LET authority == parseFloat(authorityStr)
       IN IF authority = NaN \/ authority < 0 \/ authority > 100
          THEN UNCHANGED sourceRows                    \* Deno.exit(1)
          ELSE IF ~stored THEN UNCHANGED sourceRows
          ELSE sourceRows' = updateBlog(sourceRows, i, authority)
  /\ UNCHANGED <<scoreVars, analyzeVars, pipelineVars, earlyVars,
               pollCall, weekCall, deleteCall, batchCall, raceCall, rangeCall, upsertCall>>

\* one iteration of seedBlogs: a source whose URL is not yet stored
seedBlogs ==
  /\ \E url \in BlogUrls, priority \in Priorities, stored \in BOOLEAN :
       IF (\E i \in DOMAIN sourceRows : sourceRows[i].url = url)
          \/ ~stored \/ Len(sourceRows) >= MaxBlogs
       THEN UNCHANGED sourceRows
       ELSE sourceRows' =
              createBlog(sourceRows,
                         [url |-> url, authority |-> priorityToAuthority(priority)])
  /\ UNCHANGED <<scoreVars, analyzeVars, pipelineVars, earlyVars,
               pollCall, weekCall, deleteCall, batchCall, raceCall, rangeCall, upsertCall>>

NextSources == blogsPOST \/ blogsPUT \/ setAuthority \/ seedBlogs

SpecSources == InitSources /\ [][NextSources]_vars

\* C23: every stored source has an authority within [0, 1], whatever the
\* creates and updates made through POST and PUT /api/blogs, set-authority
\* and the seed functions.
C23_AuthorityInRange ==
  \A i \in DOMAIN sourceRows :
    sourceRows[i].authority >= 0 /\ sourceRows[i].authority <= 100

C23_Witness ==
  /\ Len(sourceRows) = MaxBlogs
  /\ \E i \in DOMAIN sourceRows : sourceRows[i].authority = 0
  /\ \E i \in DOMAIN sourceRows : sourceRows[i].authority = 100

\* ------------------------------------------------------------------------
\* deleteBlog: the blog_sources rows (their ids) and the contents rows
\* (the blog_id of each) it works on.  db.query does not throw: a statement
\* that fails changes nothing and comes back with success false.
\* ------------------------------------------------------------------------
MaxContents == 2
BlogIds == {"b1", "b2"}

\* DELETE FROM contents WHERE blog_id = id
DeleteContents(contents, id) == SelectSeq(contents, LAMBDA blogId : blogId # id)

InitDelete ==
  /\ \E id \in BlogIds, blogs \in SUBSET BlogIds,
        contents \in UNION {[1..n -> BlogIds] : n \in 0..MaxContents} :
       deleteCall = [NoDelete EXCEPT !.pc = "called", !.id = id, !.blogs = blogs,
                                     !.contents = contents]
  /\ ScoreIdle
  /\ AnalyzeIdle
  /\ PipelineIdle
  /\ FetchIdle
  /\ ParseIdle
  /\ QueryIdle
  /\ SqlIdle
  /\ PollIdle /\ WeekIdle /\ SourcesIdle /\ BatchIdle /\ RaceIdle /\ RangeIdle
  /\ UpsertIdle

\* deleteBlog(id): getBlog, the DELETE of the contents rows (its result
\* is not looked at), the DELETE of the blog row, return result.success
deleteBlog ==
  /\ deleteCall.pc = "called"
  /\ \E found \in BOOLEAN, contentsOk \in BOOLEAN, blogOk \in BOOLEAN :
       IF ~(found /\ deleteCall.id \in deleteCall.blogs)
       THEN deleteCall' = [deleteCall EXCEPT !.pc = "returned", !.deleted = FALSE]
       ELSE deleteCall' =
              [deleteCall EXCEPT
                 !.pc = "returned",
                 !.contents = IF contentsOk THEN DeleteContents(@, deleteCall.id) ELSE @,
                 !.blogs = IF blogOk THEN @ \ {deleteCall.id} ELSE @,
                 !.deleted = blogOk]
  /\ UNCHANGED <<scoreVars, analyzeVars, pipelineVars, earlyVars,
               pollCall, weekCall, sourceRows, batchCall, raceCall, rangeCall, upsertCall>>

NextDelete == deleteBlog

SpecDelete == InitDelete /\ [][NextDelete]_vars

\* C24: when deleteBlog(id) has reported success, blog_sources has no row
\* with that id and contents has no row whose blog_id is that id.
C24_DeleteCascades ==
  (deleteCall.pc = "returned" /\ deleteCall.deleted) =>
    /\ deleteCall.id \notin deleteCall.blogs
    /\ \A i \in DOMAIN deleteCall.contents : deleteCall.contents[i] # deleteCall.id

\* ------------------------------------------------------------------------
\* processRedditPosts: the counters of its result.  posts is the length of
\* the batch, done the posts the loop has passed; stored counts the rows the
\* store took and insertFailed the createRedditContent calls that threw.
\* ------------------------------------------------------------------------
MaxPosts == 4

\* the ways one iteration can go
PostOutcomes ==
  {"existsByPermalink", "existsByHash", "notRelevant", "saved",
   "queryThrew", "analyzeThrew", "insertThrew"}

\* postsSkipped++; continue
Skip(f) == [f EXCEPT !.postsSkipped = @ + 1]

\* the catch block: errors.push(errorMsg)
Catch(f) == [f EXCEPT !.errors = @ + 1]

\* postsRelevant++, before the insert
Relevant(f) == [f EXCEPT !.postsRelevant = @ + 1]

\* a save that leaves postsSaved alone
Saved_uncounted(f) == [f EXCEPT !.stored = @ + 1]

\* createRedditContent returned; postsSaved++
Saved(f) == [f EXCEPT !.stored = @ + 1, !.postsSaved = @ + 1]

\* the body of the loop on one post
Iteration(f, outcome) ==
  CASE outcome \in {"existsByPermalink", "existsByHash", "notRelevant"} -> Skip(f)
    [] outcome \in {"queryThrew", "analyzeThrew"} -> Catch(f)
    [] outcome = "insertThrew" -> Catch([Relevant(f) EXCEPT !.insertFailed = @ + 1])
    [] outcome = "saved" -> Saved(Relevant(f))

InitBatch == ScoreIdle /\ AnalyzeIdle /\ PipelineIdle /\ UnitIdle

\* processRedditPosts(posts, type, authority) up to its loop
startBatch ==
  /\ batchCall.pc = "idle"
  /\ \E n \in 0..MaxPosts : batchCall' = [NoBatch EXCEPT !.pc = "loop", !.posts = n]
  /\ UNCHANGED <<scoreVars, analyzeVars, pipelineVars, earlyVars,
               pollCall, weekCall, sourceRows, deleteCall, raceCall, rangeCall, upsertCall>>

\* one iteration of for (const post of posts)
batchIteration ==
  /\ batchCall.pc = "loop"
  /\ batchCall.done < batchCall.posts
  /\ \E outcome \in PostOutcomes :
       batchCall' = [Iteration(batchCall, outcome) EXCEPT !.done = @ + 1]
  /\ UNCHANGED <<scoreVars, analyzeVars, pipelineVars, earlyVars,
               pollCall, weekCall, sourceRows, deleteCall, raceCall, rangeCall, upsertCall>>

\* the return of the four counters
batchReturn ==
  /\ batchCall.pc = "loop"
  /\ batchCall.done = batchCall.posts
  /\ batchCall' = [batchCall EXCEPT !.pc = "returned"]
  /\ UNCHANGED <<scoreVars, analyzeVars, pipelineVars, earlyVars,
               pollCall, weekCall, sourceRows, deleteCall, raceCall, rangeCall, upsertCall>>

NextBatch == startBatch \/ batchIteration \/ batchReturn

SpecBatch == InitBatch /\ [][NextBatch]_vars

\* C25: in the result of processRedditPosts postsSaved + postsSkipped + the
\* number of errors is the number of posts of the batch, and postsRelevant
\* is at most the rows stored plus the inserts that failed.
C25_CountsAddUp ==
  batchCall.pc = "returned" =>
    /\ batchCall.postsSaved + batchCall.postsSkipped + batchCall.errors = batchCall.posts
    /\ batchCall.postsRelevant <= batchCall.stored + batchCall.insertFailed

C25_Witness ==
  /\ batchCall.pc = "returned"
  /\ batchCall.posts = MaxPosts
  /\ batchCall.postsSaved = 1
  /\ batchCall.postsSkipped = 1
  /\ batchCall.insertFailed = 1

\* ------------------------------------------------------------------------
\* Two scrape runs of one LinkedIn profile, or of one subreddit, served at
\* the same time: each run is an async function, and the runs interleave at
\* every await.  Both runs get the same posts; rows holds the natural keys of
\* the rows of the table they share.  Every query succeeds here.
\* ------------------------------------------------------------------------
MaxRacePosts == 2
RaceRuns == {"A", "B"}

\* the loop of a run goes on to its next post
NextPost(frame) == [at |-> frame.at + 1, pc |-> "check"]

InitRace == ScoreIdle /\ AnalyzeIdle /\ PipelineIdle /\ UnitIdle

\* two POST /api/scrape requests for the same source are accepted
startRace ==
  /\ raceCall.pc = "idle"
  /\ \E kind \in {"linkedin", "reddit"} :
       raceCall' = [NoRace EXCEPT !.pc = "running", !.kind = kind]
  /\ UNCHANGED <<scoreVars, analyzeVars, pipelineVars, earlyVars,
               pollCall, weekCall, sourceRows, deleteCall, batchCall, rangeCall, upsertCall>>

\* await linkedInContentExistsByPostId(rawPost.id), or
\* await redditContentExistsByPermalink(post.permalink), in one run
raceExists ==
  /\ raceCall.pc = "running"
  /\ \E r \in RaceRuns :
       /\ raceCall[r].pc = "check"
       /\ raceCall[r].at <= MaxRacePosts
       /\ raceCall' =
            [raceCall EXCEPT
               ![r] = IF \E i \in DOMAIN raceCall.rows : raceCall.rows[i] = raceCall[r].at
                      THEN NextPost(@)
                      ELSE [@ EXCEPT !.pc = "analyze"]]
  /\ UNCHANGED <<scoreVars, analyzeVars, pipelineVars, earlyVars,
               pollCall, weekCall, sourceRows, deleteCall, batchCall, rangeCall, upsertCall>>

\* await analyzeLinkedInPost(...), or await analyzeRedditPost(...), in one
\* run: it throws, or it answers; a Reddit post that is not relevant is
\* skipped
raceAnalyze ==
  /\ raceCall.pc = "running"
  /\ \E r \in RaceRuns, threw \in BOOLEAN, relevant \in BOOLEAN :
       /\ raceCall[r].pc = "analyze"
       /\ raceCall' =
            [raceCall EXCEPT
               ![r] = IF threw \/ (raceCall.kind = "reddit" /\ ~relevant)
                      THEN NextPost(@)
                      ELSE [@ EXCEPT !.pc = "insert"]]
  /\ UNCHANGED <<scoreVars, analyzeVars, pipelineVars, earlyVars,
               pollCall, weekCall, sourceRows, deleteCall, batchCall, rangeCall, upsertCall>>

\* await createLinkedInContent(...), or await createRedditContent(...), in
\* one run: a plain INSERT
raceInsert ==
  /\ raceCall.pc = "running"
  /\ \E r \in RaceRuns :
       /\ raceCall[r].pc = "insert"
       /\ raceCall' = [raceCall EXCEPT !.rows = Append(@, raceCall[r].at),
                                       ![r] = NextPost(@)]
  /\ UNCHANGED <<scoreVars, analyzeVars, pipelineVars, earlyVars,
               pollCall, weekCall, sourceRows, deleteCall, batchCall, rangeCall, upsertCall>>

NextRace == startRace \/ raceExists \/ raceAnalyze \/ raceInsert

SpecRace == InitRace /\ [][NextRace]_vars

\* C28: while two runs over the same posts are in progress, the table never
\* holds two rows with the same post_id (or permalink).
C28_NoDoubleInsert ==
  \A i, j \in DOMAIN raceCall.rows :
    raceCall.rows[i] = raceCall.rows[j] => i = j

\* ------------------------------------------------------------------------
\* The post_score a scrape request writes, from the authority in the body of
\* the request to the row.  Authorities, qualities and the scores of articles
\* and Reddit posts are in hundredths; a LinkedIn score is a whole number of
\* points.  The quality is the clamped quality_score of the analysis.
\* ------------------------------------------------------------------------
\* body.authority, p.authority, s.authority: absent or any JSON number
CallerAuthorities ==
  {JsUndef, JsNum(0), JsNum(50), JsNum(100), JsNum(150), JsNum(500)}
RangeQualities == {0, 50, 80, 100}

\* typeof x === "number" ? x : 0.7
NumberOrDefault(x) == IF x.t = "num" THEN x.v ELSE 70

\* typeof x === "number" ? Math.max(0, Math.min(1, x)) : 0.7
ClampOrDefault(x) ==
  IF x.t # "num" THEN 70
  ELSE IF x.v > 100 THEN 100
  ELSE IF x.v < 0 THEN 0
  ELSE x.v

\* x || 0.7 on a number
OrDefault(a) == IF a = 0 THEN 70 ELSE a

\* the row processLinkedInPost writes: every post that is new is saved
LinkedInWrite(route, body, authority, rel, q) ==
  [pc |-> "done", route |-> route, body |-> body, authority |-> authority,
   rel |-> rel, q |-> q, scale |-> "points", written |-> TRUE,
   score |-> linkedInPostScore(rel, q, authority)]

\* the row processRedditPosts writes, for a relevant post only
RedditWrite(route, body, authority, rel, q) ==
  [pc |-> "done", route |-> route, body |-> body, authority |-> authority,
   rel |-> rel, q |-> q, scale |-> "unit", written |-> rel,
   score |-> IF rel THEN redditPostScore(q, authority) ELSE 0]

InitRange == ScoreIdle /\ AnalyzeIdle /\ PipelineIdle /\ UnitIdle

\* POST /api/scrape with body.profiles: scrapeLinkedInProfiles(profiles)
scrapeCustomProfiles ==
  /\ \E body \in CallerAuthorities, rel \in BOOLEAN, q \in RangeQualities :
       rangeCall' = LinkedInWrite("scrape.profiles", body,
                                  OrDefault(NumberOrDefault(body)), rel, q)
  /\ UNCHANGED <<scoreVars, analyzeVars, pipelineVars, earlyVars,
               pollCall, weekCall, sourceRows, deleteCall, batchCall, raceCall, upsertCall>>

\* POST /api/linkedin/scrape with body.profile_url
scrapeSingleProfile ==
  /\ \E body \in CallerAuthorities \cup {JsNum(0 - 50)}, rel \in BOOLEAN,
        q \in RangeQualities :
       rangeCall' = LinkedInWrite("linkedin.profile", body, ClampOrDefault(body), rel, q)
  /\ UNCHANGED <<scoreVars, analyzeVars, pipelineVars, earlyVars,
               pollCall, weekCall, sourceRows, deleteCall, batchCall, raceCall, upsertCall>>

\* POST /api/scrape with body.subreddits: scrapeSubreddits(subreddits)
scrapeCustomSubreddits ==
  /\ \E body \in CallerAuthorities \cup {JsNum(0 - 50)}, rel \in BOOLEAN,
        q \in RangeQualities :
       rangeCall' = RedditWrite("scrape.subreddits", body,
                                OrDefault(NumberOrDefault(body)), rel, q)
  /\ UNCHANGED <<scoreVars, analyzeVars, pipelineVars, earlyVars,
               pollCall, weekCall, sourceRows, deleteCall, batchCall, raceCall, upsertCall>>

\* POST /api/reddit/scrape: processRedditPosts(body.posts, type, authority)
redditScrape ==
  /\ \E body \in CallerAuthorities \cup {JsNum(0 - 50)}, rel \in BOOLEAN,
        q \in RangeQualities :
       rangeCall' = RedditWrite("reddit.scrape", body, ClampOrDefault(body), rel, q)
  /\ UNCHANGED <<scoreVars, analyzeVars, pipelineVars, earlyVars,
               pollCall, weekCall, sourceRows, deleteCall, batchCall, raceCall, upsertCall>>

\* an article of a stored blog: the authority is the blog row's, the caller
\* supplies none
scrapeArticle ==
  /\ \E a \in {0, 50, 100}, q \in RangeQualities :
       rangeCall' = [pc |-> "done", route |-> "blog", body |-> JsUndef,
                     authority |-> a, rel |-> TRUE, q |-> q, scale |-> "unit",
                     written |-> TRUE, score |-> calculatePostScore(q, a)]
  /\ UNCHANGED <<scoreVars, analyzeVars, pipelineVars, earlyVars,
               pollCall, weekCall, sourceRows, deleteCall, batchCall, raceCall, upsertCall>>

NextRange ==
  \/ scrapeCustomProfiles
  \/ scrapeSingleProfile
  \/ scrapeCustomSubreddits
  \/ redditScrape
  \/ scrapeArticle

SpecRange == InitRange /\ [][NextRange]_vars

\* C29: every post_score written lies within its scale, whatever authority
\* the caller supplies: a whole number from 0 to 100 for a LinkedIn post, a
\* number from 0 to 1 (0 to 100 hundredths) for an article or a Reddit post.
C29_ScoreWithinScale ==
  rangeCall.written => (rangeCall.score >= 0 /\ rangeCall.score <= 100)

\* the part of C29 that holds: the routes that clamp, the Reddit routes and
\* the articles
RangeClampedRoutes ==
  (rangeCall.written /\ rangeCall.route # "scrape.profiles")
    => (rangeCall.score >= 0 /\ rangeCall.score <= 100)

\* ------------------------------------------------------------------------
\* upsertArticle on whole rows.  The repository holds two copies: one writes
\* the table contents (id assigned by the table, created_at and updated_at),
\* the other the table articles (id from generateId, scraped_at).  rows is
\* the table, before the table as the last call found it, firsts the rows as
\* their INSERT wrote them, hit the index of the row the last call ran into.
\* Times and ids are the number of the call.
\* ------------------------------------------------------------------------
MaxUpserts == 3
UpsertBlogIds == {"b1", "b2"}
PublishedDates == {1, 2}
Versions == {1, 2}

\* ArticleInsert: publication_week is computed from published_at, and
\* summary, key_points and post_score come from one analysis
ArticleInserts ==
  {[blog_id |-> b, title |-> <<"title", t>>, url |-> u, published_at |-> p,
    publication_week |-> <<"week", p>>, summary |-> <<"summary", a>>,
    key_points |-> <<"key_points", a>>, post_score |-> a] :
     b \in UpsertBlogIds, t \in Versions, u \in ArticleUrls, p \in PublishedDates,
     a \in Versions}

\* INSERT INTO contents (...) VALUES (...): the table assigns the id and
\* leaves updated_at NULL (0)
ContentsRow(input, id, stamp) ==
  [id |-> id, blog_id |-> input.blog_id, title |-> input.title, url |-> input.url,
   published_at |-> input.published_at, publication_week |-> input.publication_week,
   summary |-> input.summary, key_points |-> input.key_points,
   post_score |-> input.post_score, created_at |-> stamp, updated_at |-> 0]

\* INSERT INTO articles (id, ...) VALUES (...)
ArticlesRow(input, id, stamp) ==
  [id |-> id, blog_id |-> input.blog_id, title |-> input.title, url |-> input.url,
   published_at |-> input.published_at, publication_week |-> input.publication_week,
   summary |-> input.summary, key_points |-> input.key_points,
   post_score |-> input.post_score, scraped_at |-> stamp]

\* a DO UPDATE SET that also takes the dates of the excluded row
DoUpdateSet_withDates(row, excluded, stamp) ==
  [row EXCEPT !.title = excluded.title, !.summary = excluded.summary,
              !.key_points = excluded.key_points, !.post_score = excluded.post_score,
              !.published_at = excluded.published_at,
              !.publication_week = excluded.publication_week,
              !.updated_at = stamp]

\* ON CONFLICT (article_url) DO UPDATE SET article_title, summary,
\* key_points, post_score = EXCLUDED..., updated_at = datetime('now')
DoUpdateSet(row, excluded, stamp) ==
  [row EXCEPT !.title = excluded.title, !.summary = excluded.summary,
              !.key_points = excluded.key_points, !.post_score = excluded.post_score,
              !.updated_at = stamp]

\* ON CONFLICT (url) DO UPDATE SET title, summary, key_points, post_score,
\* scraped_at = EXCLUDED...
DoUpdateSetArticles(row, excluded) ==
  [row EXCEPT !.title = excluded.title, !.summary = excluded.summary,
              !.key_points = excluded.key_points, !.post_score = excluded.post_score,
              !.scraped_at = excluded.scraped_at]

\* the index of the row with this url, 0 when there is none
RowOfUrl(rows, url) ==
  IF \E i \in DOMAIN rows : rows[i].url = url
  THEN CHOOSE i \in DOMAIN rows : rows[i].url = url
  ELSE 0

\* one call of upsertArticle: excluded is the row the INSERT proposes,
\* updated the row the conflict clause leaves; a failed query throws and
\* writes nothing
Upserted(call, table, input, ok, excluded, updated) ==
  LET i == RowOfUrl(call.rows, input.url)
  IN [call EXCEPT
        !.table = table,
        !.calls = @ + 1,
        !.input = <<input>>,
        !.before = call.rows,
        !.hit = IF ok THEN i ELSE 0,
        !.rows = IF ~ok THEN @
                 ELSE IF i = 0 THEN Append(@, excluded)
                 ELSE [@ EXCEPT ![i] = updated],
        !.firsts = IF ok /\ i = 0 THEN Append(@, excluded) ELSE @]

InitUpsert == ScoreIdle /\ AnalyzeIdle /\ PipelineIdle /\ UnitIdle

\* upsertArticle(input) of the contents table
upsertArticleContents ==
  /\ upsertCall.table \in {"none", "contents"}
  /\ upsertCall.calls < MaxUpserts
  /\ \E input \in ArticleInserts, ok \in BOOLEAN :
       LET stamp == upsertCall.calls + 1
           i == RowOfUrl(upsertCall.rows, input.url)
           excluded == ContentsRow(input, Len(upsertCall.rows) + 1, stamp)
       IN upsertCall' =
            Upserted(upsertCall, "contents", input, ok, excluded,
                     IF i = 0 THEN excluded
                     ELSE DoUpdateSet(upsertCall.rows[i], excluded, stamp))
  /\ UNCHANGED <<scoreVars, analyzeVars, pipelineVars, earlyVars,
               pollCall, weekCall, sourceRows, deleteCall, batchCall, raceCall, rangeCall>>

\* upsertArticle(input) of the articles table
upsertArticleArticles ==
  /\ upsertCall.table \in {"none", "articles"}
  /\ upsertCall.calls < MaxUpserts
  /\ \E input \in ArticleInserts, ok \in BOOLEAN :
       LET stamp == upsertCall.calls + 1
           i == RowOfUrl(upsertCall.rows, input.url)
           excluded == ArticlesRow(input, stamp, stamp)
       IN upsertCall' =
            Upserted(upsertCall, "articles", input, ok, excluded,
                     IF i = 0 THEN excluded
                     ELSE DoUpdateSetArticles(upsertCall.rows[i], excluded))
  /\ UNCHANGED <<scoreVars, analyzeVars, pipelineVars, earlyVars,
               pollCall, weekCall, sourceRows, deleteCall, batchCall, raceCall, rangeCall>>

NextUpsert ==
  \/ upsertArticleContents
  \/ upsertArticleArticles

SpecUpsert == InitUpsert /\ [][NextUpsert]_vars

\* the columns an upsert of a stored URL may change
UpdatedColumns ==
  {"title", "summary", "key_points", "post_score", "updated_at", "scraped_at"}

\* the columns that keep the values of the first insert
FirstInsertColumns == {"id", "blog_id", "published_at", "publication_week"}

\* C30: when upsertArticle runs into a stored row with the same article URL
\* it changes only title, summary, key_points, post_score and the update
\* timestamp of that row: no other column and no other row changes, no row
\* is added, and id, blog_id, published_at and publication_week of the row
\* are still those its first insert wrote.
C30_UpsertFrame ==
  upsertCall.hit # 0 =>
    LET i == upsertCall.hit
        new == upsertCall.rows[i]
        old == upsertCall.before[i]
    IN /\ Len(upsertCall.rows) = Len(upsertCall.before)
       /\ \A k \in DOMAIN upsertCall.rows :
            k # i => upsertCall.rows[k] = upsertCall.before[k]
       /\ \A c \in DOMAIN new \ UpdatedColumns : new[c] = old[c]
       /\ \A c \in FirstInsertColumns : new[c] = upsertCall.firsts[i][c]
       /\ new.title = upsertCall.input[1].title
       /\ new.summary = upsertCall.input[1].summary
       /\ new.key_points = upsertCall.input[1].key_points
       /\ new.post_score = upsertCall.input[1].post_score

\* a second upsert of a stored URL whose input differs from the stored row
\* in blog_id, published_at, publication_week, title and summary
C30_Witness ==
  /\ upsertCall.hit # 0
  /\ LET old == upsertCall.before[upsertCall.hit]
         input == upsertCall.input[1]
     IN /\ input.blog_id # old.blog_id
        /\ input.published_at # old.published_at
        /\ input.publication_week # old.publication_week
        /\ input.title # old.title
        /\ input.summary # old.summary
        /\ Len(upsertCall.rows) = 2

\* ------------------------------------------------------------------------
\* The pipelines.  The three pipelines read and write disjoint tables and
\* share no variable, so a behaviour follows the runs of one source kind,
\* the one started first; runs of that kind repeat without bound.  The
\* elements of a fetched listing are drawn when the loop reaches them.
\* ------------------------------------------------------------------------
SourceIds == {"s1", "s2"}
DefaultAuthority == 70

\* the authority column of a source
AuthorityOf(src) == IF src = "s1" THEN 90 ELSE 50

\* authority || 0.7
OrDefaultAuthority(a) == IF a = 0 THEN DefaultAuthority ELSE a

\* the sources a listing query returns: the first n of the sources table
SourceTable == [i \in 1..MaxSources |-> IF i = 1 THEN "s1" ELSE "s2"]
Listings == {SubSeq(SourceTable, 1, n) : n \in 0..MaxSources}

\* calculatePostScore, tabulated once over the values the pipelines pass
PipelineQualities == {0, 80, 100}
PipelineAuthorities == {AuthorityOf(src) : src \in SourceIds} \cup {DefaultAuthority}
PostScoreTable ==
  [q \in PipelineQualities, a \in PipelineAuthorities |-> calculatePostScore(q, a)]

\* replies of the LLM inside a pipeline; "throw": callLLM throws
PipelineReplies(summaries) ==
  [shape : {"object"}, rel : {JsBool(TRUE), JsBool(FALSE)}, summary : summaries,
   kp : {"array"}, q : {JsNum(80)}]
  \cup [shape : {"unparseable", "throw"}, rel : {JsUndef}, summary : {"undef"},
        kp : {"other"}, q : {JsUndef}]

RelOf(a) == IF a.is_relevant THEN "yes" ELSE "no"

\* getApiKey inside callLLM: without OPENROUTER_API_KEY every call throws
RepliesUnder(missing, summaries) ==
  IF missing = "llm"
  THEN {reply \in PipelineReplies(summaries) : reply.shape = "throw"}
  ELSE PipelineReplies(summaries)

\* the DatabaseClient constructor only warns when ADMIN_DB_TOKEN is absent
\* and keeps an empty token: every query is sent and comes back failed
QueryOutcomes(missing) == IF missing = "db" THEN {FALSE} ELSE BOOLEAN
ListingsUnder(missing) == IF missing = "db" THEN {<< >>} ELSE Listings

\* the step recorded in l has read the credential the run lacks
Needs(missing, l) ==
  \/ missing = "llm" /\ l.llm = 1
  \/ missing = "apify" /\ l.op = "profile"
  \/ missing = "db" /\ (l.op \in {"linkedin", "reddit"} \/ l.call = "upsertArticle")

\* rate limiting, in milliseconds
DELAY_BETWEEN_BLOGS == 2000
DELAY_BETWEEN_ARTICLES == 500
LINKEDIN_DELAY_BETWEEN_POSTS == 300
DELAY_BETWEEN_PROFILES == 2000
DELAY_BETWEEN_POSTS == 300
DELAY_BETWEEN_SUBREDDITS == 2000

\* the sleep at the end of an iteration of a loop over sources
DelayBetweenSources ==
  IF served = "blog" THEN DELAY_BETWEEN_BLOGS
  ELSE IF served = "linkedin" THEN DELAY_BETWEEN_PROFILES
  ELSE DELAY_BETWEEN_SUBREDDITS

\* the loops: for (let i = 0; i < sources.length; i++) over the listing and
\* for (const item of list) over the items of one source
CurrentSource_last(r) == r.sources[Len(r.sources)]
CurrentSource(r) == Head(r.sources)
SourceIndex(r) == Len(r.listing) - Len(r.sources) + 1
ItemIndex(r) == r.count - r.left + 1

\* the record of a step on item i of the current source (0: the source itself)
Here(r, i) ==
  [NoLast EXCEPT !.source = CurrentSource(r), !.j = SourceIndex(r), !.i = i]

\* ---- blog pipeline ----------------------------------------------------
\* an element of the article list the LLM extracted; NullInfo is a null
NullInfo == [url |-> "null", published_at |-> NoDate]
ArticleInfos ==
  [url : ArticleUrls,
   published_at : {NoDate, BadDate, StartDay - WeekDays - 1, StartDay - WeekDays}]

ArticleLengths == {ArticleMinLength - 1, ArticleMinLength}
PageLengths == {PageMinLength - 1, PageMinLength}

\* processArticle on one element: every outcome [last, table] over
\* the fetch result, the extracted text, the LLM reply and the upsert result
processArticle(authority, info) ==
  LET base == [Here(run, ItemIndex(run)) EXCEPT !.op = "article", !.key = info.url]
      same(l) == [last |-> l, table |-> articles]
  IN IF info = NullInfo
     THEN {same([base EXCEPT !.threw = TRUE])}       \* articleInfo.url of null
     ELSE
       {same([base EXCEPT !.threw = TRUE])}          \* fetch failed or not ok
       \cup {same([base EXCEPT !.len = n]) :
               n \in {m \in ArticleLengths : ~hasMinimumContent(m, ArticleMinLength)}}
       \cup UNION {
         UNION {
           LET text == [base EXCEPT !.len = n, !.llm = 1]
           IN IF analyzeArticle(reply) = AnalysisThrew
              THEN {same([text EXCEPT !.threw = TRUE])}
              ELSE
                LET res == analyzeArticle(reply)
                    seen == [text EXCEPT !.rel = RelOf(res)]
                    publishedDate == ResolveDate(info.published_at, now)
                    dated == [seen EXCEPT !.resolved = publishedDate, !.at = now]
                    postScore == PostScoreTable[res.quality_score, authority]
                    input == [url |-> info.url, summary |-> res.summary,
                              post_score |-> postScore]
                    called ==
                      [dated EXCEPT !.call = "upsertArticle", !.q = res.quality_score,
                                    !.a = authority, !.score = postScore,
                                    !.summary = res.summary,
                                    !.existed = \E i \in DOMAIN articles :
                                                   articles[i].url = info.url]
                IN IF ~res.is_relevant THEN {same(seen)}
                   ELSE IF ~isWithinLastWeek(publishedDate, now) THEN {same(dated)}
                   ELSE {[last |-> [called EXCEPT !.ok = TRUE],
                          table |-> upsertArticle(articles, input)] :
                           ok \in QueryOutcomes(run.missing) \ {FALSE}}
                        \cup {same([called EXCEPT !.threw = TRUE])}
           : reply \in RepliesUnder(run.missing, {"s1", "s2"})}
         : n \in {m \in ArticleLengths : hasMinimumContent(m, ArticleMinLength)}}

\* scrapeAllBlogs up to its loop: listBlogs (an empty list when the query fails)
scrapeAllBlogs ==
  /\ run.pc = "idle"
  /\ served \in {"none", "blog"}
  /\ served' = "blog"
  /\ \E missing \in {"none", "llm", "db"} :
       \E blogs \in ListingsUnder(missing) :
         run' = [IdleRun EXCEPT !.pc = "sources", !.listing = blogs, !.sources = blogs,
                                !.missing = missing, !.needed = missing = "db"]
  /\ last' = NoLast
  /\ UNCHANGED <<now, articles, linkedin, reddit, scoreVars, analyzeVars, unitVars>>

\* the end of an iteration of the loop over the sources:
\* if (i < sources.length - 1) await sleep(...)
NextSource(r) ==
  [r EXCEPT !.pc = "sources", !.sources = Tail(@), !.count = 0, !.left = 0,
            !.slept = IF Len(r.sources) > 1 THEN DelayBetweenSources ELSE 0]
Noting(r, l) == [r EXCEPT !.needed = @ \/ Needs(r.missing, l)]

\* scrapeBlog up to its loop, for the next blog of scrapeAllBlogs: homepage
\* fetch, text extraction, minimum-content gate, extractArticlesFromPage.
\* A throw is caught by scrapeAllBlogs, which goes on to the next blog.
scrapeBlog ==
  /\ served = "blog"
  /\ run.pc = "sources"
  /\ run.sources # << >>
  /\ \/ /\ last' = [Here(run, 0) EXCEPT !.op = "page", !.threw = TRUE]   \* fetch
        /\ run' = NextSource(run)
     \/ \E n \in PageLengths :
          IF ~hasMinimumContent(n, PageMinLength)
          THEN /\ last' = [Here(run, 0) EXCEPT !.op = "page", !.len = n]
               /\ run' = NextSource(run)
          ELSE \/ /\ last' = [Here(run, 0) EXCEPT !.op = "page", !.len = n, !.llm = 1,
                                            !.threw = TRUE]       \* callLLM
                  /\ run' = Noting(NextSource(run), last')
               \/ \E count \in 0..MaxItems :
                    /\ run.missing # "llm"
                    /\ last' = [Here(run, 0) EXCEPT !.op = "page", !.len = n, !.llm = 1]
                    /\ run' = IF count = 0 THEN NextSource(run)
                              ELSE [run EXCEPT !.pc = "items", !.count = count, !.left = count]
  /\ UNCHANGED <<now, articles, linkedin, reddit, served, scoreVars, analyzeVars, unitVars>>

\* one iteration of the loop of scrapeBlog: processArticle in try/catch.
\* The catch handler reads articleInfo.title: on a null element it throws
\* itself, scrapeBlog rejects and the rest of its list is dropped.
scrapeBlogItem ==
  /\ served = "blog"
  /\ run.pc = "items"
  /\ \E r \in UNION {processArticle(AuthorityOf(CurrentSource(run)), info) :
                        info \in ArticleInfos \cup {NullInfo}} :
       /\ Len(r.table) <= MaxRows
       /\ articles' = r.table
       /\ last' = IF r.last.threw /\ r.last.key = NullInfo.url
                  THEN r.last
                  ELSE [r.last EXCEPT !.slept = DELAY_BETWEEN_ARTICLES]
       /\ run' = Noting(IF r.last.threw /\ r.last.key = NullInfo.url
                        THEN [NextSource(run) EXCEPT !.lost = @ \/ run.left > 1]
                        ELSE IF run.left = 1 THEN NextSource(run)
                        ELSE [run EXCEPT !.left = @ - 1], r.last)
  /\ UNCHANGED <<now, linkedin, reddit, served, scoreVars, analyzeVars, unitVars>>

\* ---- LinkedIn pipeline ------------------------------------------------
LinkedInLengths == {0, LinkedInMinLength - 1, LinkedInMinLength}
LinkedInPosts == [id : PostIds, length : LinkedInLengths]

\* processLinkedInPost on one post: every outcome [last, table] over the
\* result of the existence query, the LLM reply and the result of the INSERT
processLinkedInPost(rawPost, authorAuthority) ==
  LET stored == \E i \in DOMAIN linkedin : linkedin[i].post_id = rawPost.id
      base == [Here(run, ItemIndex(run)) EXCEPT
                 !.op = "linkedin", !.key = rawPost.id, !.existed = stored]
      same(l) == [last |-> l, table |-> linkedin]
  IN UNION {
       IF linkedInContentExistsByPostId(linkedin, rawPost.id, existsOk)
       THEN {same(base)}
       ELSE IF rawPost.length = 0 \/ rawPost.length < LinkedInMinLength
       THEN {same([base EXCEPT !.len = rawPost.length])}
       ELSE UNION {
         LET text == [base EXCEPT !.len = rawPost.length, !.llm = 1]
         IN IF analyzeLinkedInPost(reply) = AnalysisThrew
            THEN {same([text EXCEPT !.threw = TRUE])}
            ELSE
              LET res == analyzeLinkedInPost(reply)
                  postScore ==
                    linkedInPostScore(res.is_relevant, res.quality_score, authorAuthority)
                  called ==
                    [text EXCEPT !.rel = RelOf(res), !.call = "createLinkedInContent",
                                 !.q = res.quality_score, !.a = authorAuthority,
                                 !.score = postScore]
                  input == [post_id |-> rawPost.id, post_score |-> postScore]
              IN {[last |-> [called EXCEPT !.ok = TRUE],
                   table |-> createLinkedInContent(linkedin, input)] :
                    ok \in QueryOutcomes(run.missing) \ {FALSE}}
                 \cup {same([called EXCEPT !.threw = TRUE])}
         : reply \in RepliesUnder(run.missing, {"s1"})}
     : existsOk \in QueryOutcomes(run.missing)}

\* scrapeLinkedInProfiles up to its loop
scrapeLinkedInProfiles ==
  /\ run.pc = "idle"
  /\ served \in {"none", "linkedin"}
  /\ served' = "linkedin"
  /\ \E missing \in {"none", "llm", "apify", "db"} :
       \E profiles \in Listings :
         run' = [IdleRun EXCEPT !.pc = "sources", !.listing = profiles, !.sources = profiles,
                                !.missing = missing]
  /\ last' = NoLast
  /\ UNCHANGED <<now, articles, linkedin, reddit, scoreVars, analyzeVars, unitVars>>

\* scrapeLinkedInProfile up to its loop, for the next profile:
\* fetchLinkedInPosts throws (caught by scrapeLinkedInProfiles) or returns
\* the posts, none when the actor run fails
scrapeLinkedInProfile ==
  /\ served = "linkedin"
  /\ run.pc = "sources"
  /\ run.sources # << >>
  /\ \/ /\ last' = [Here(run, 0) EXCEPT !.op = "profile", !.threw = TRUE]
        /\ run' = Noting(NextSource(run), last')
     \/ \E count \in 0..MaxItems :
          /\ run.missing # "apify"
          /\ last' = [Here(run, 0) EXCEPT !.op = "profile"]
          /\ run' = IF count = 0 THEN NextSource(run)
                    ELSE [run EXCEPT !.pc = "items", !.count = count, !.left = count]
  /\ UNCHANGED <<now, articles, linkedin, reddit, served, scoreVars, analyzeVars, unitVars>>

\* one iteration of the loop of scrapeLinkedInProfile
scrapeLinkedInProfileItem ==
  /\ served = "linkedin"
  /\ run.pc = "items"
  /\ \E r \in UNION {processLinkedInPost(
                        post, OrDefaultAuthority(AuthorityOf(CurrentSource(run)))) :
                        post \in LinkedInPosts} :
       /\ Len(r.table) <= MaxRows
       /\ linkedin' = r.table
       /\ last' = [r.last EXCEPT !.slept = LINKEDIN_DELAY_BETWEEN_POSTS]
       /\ run' = Noting(IF run.left = 1 THEN NextSource(run)
                        ELSE [run EXCEPT !.left = @ - 1], r.last)
  /\ UNCHANGED <<now, articles, reddit, served, scoreVars, analyzeVars, unitVars>>

\* ---- Reddit pipeline --------------------------------------------------
RedditPosts == [permalink : Permalinks, text : Texts]

\* one iteration of the loop of processRedditPosts: every outcome
\* [last, table] over the results of the two existence queries, the LLM
\* reply and the result of the INSERT
processRedditPost(post, authority) ==
  LET stored == \E i \in DOMAIN reddit : reddit[i].permalink = post.permalink
      base == [Here(run, ItemIndex(run)) EXCEPT
                             !.op = "reddit", !.key = post.permalink,
                             !.summary = post.text, !.existed = stored]
      same(l) == [last |-> l, table |-> reddit]
      contentHash == generateContentHash(post.text)
  IN UNION {
       IF redditContentExistsByPermalink(reddit, post.permalink, q[1])
       THEN {same([base EXCEPT !.call = "skipPermalink"])}
       ELSE IF redditContentExistsByHash(reddit, contentHash, q[2])
       THEN {same([base EXCEPT !.call = "skipHash"])}
       ELSE UNION {
         LET text == [base EXCEPT !.llm = 1]
         IN IF analyzeRedditPost(reply) = AnalysisThrew
            THEN {same([text EXCEPT !.threw = TRUE])}
            ELSE
              LET res == analyzeRedditPost(reply)
                  seen == [text EXCEPT !.rel = RelOf(res)]
                  postScore == redditPostScore(res.quality_score, authority)
                  called ==
                    [seen EXCEPT !.call = "createRedditContent",
                                 !.q = res.quality_score, !.a = authority,
                                 !.score = postScore]
                  insertData == [permalink |-> post.permalink, text |-> post.text,
                                 post_score |-> postScore, content_hash |-> contentHash]
              IN IF ~res.is_relevant THEN {same(seen)}
                 ELSE {[last |-> [called EXCEPT !.ok = TRUE,
                                               !.slept = DELAY_BETWEEN_POSTS],
                        table |-> createRedditContent(reddit, insertData)] :
                         ok \in QueryOutcomes(run.missing) \ {FALSE}}
                      \cup {same([called EXCEPT !.threw = TRUE])}
         : reply \in RepliesUnder(run.missing, {"s1"})}
     : q \in QueryOutcomes(run.missing) \X QueryOutcomes(run.missing)}

\* scrapeSubreddits up to its loop
scrapeSubreddits ==
  /\ run.pc = "idle"
  /\ served \in {"none", "reddit"}
  /\ served' = "reddit"
  /\ \E missing \in {"none", "llm", "db"} :
       \E subreddits \in Listings :
         run' = [IdleRun EXCEPT !.pc = "sources", !.listing = subreddits, !.sources = subreddits,
                                !.missing = missing]
  /\ last' = NoLast
  /\ UNCHANGED <<now, articles, linkedin, reddit, scoreVars, analyzeVars, unitVars>>

\* scrapeSubreddit up to processRedditPosts, for the next subreddit:
\* fetchSubredditPosts throws (caught inside scrapeSubreddit) or returns posts
scrapeSubreddit ==
  /\ served = "reddit"
  /\ run.pc = "sources"
  /\ run.sources # << >>
  /\ \/ /\ last' = [Here(run, 0) EXCEPT !.op = "subreddit", !.threw = TRUE]
        /\ run' = NextSource(run)
     \/ \E count \in 0..MaxItems :
          /\ last' = [Here(run, 0) EXCEPT !.op = "subreddit"]
          /\ run' = IF count = 0 THEN NextSource(run)
                    ELSE [run EXCEPT !.pc = "items", !.count = count, !.left = count]
  /\ UNCHANGED <<now, articles, linkedin, reddit, served, scoreVars, analyzeVars, unitVars>>

\* one iteration of the loop of processRedditPosts
processRedditPosts ==
  /\ served = "reddit"
  /\ run.pc = "items"
  /\ \E r \in UNION {processRedditPost(
                        post, OrDefaultAuthority(AuthorityOf(CurrentSource(run)))) :
                        post \in RedditPosts} :
       /\ Len(r.table) <= MaxRows
       /\ reddit' = r.table
       /\ last' = r.last
       /\ run' = Noting(IF run.left = 1 THEN NextSource(run)
                        ELSE [run EXCEPT !.left = @ - 1], r.last)
  /\ UNCHANGED <<now, articles, linkedin, served, scoreVars, analyzeVars, unitVars>>

\* the end of the loop over the sources: the batch function returns
returnFromRun ==
  /\ run.pc = "sources"
  /\ run.sources = << >>
  /\ run' = [run EXCEPT !.pc = "idle", !.returned = "normal"]
  /\ UNCHANGED <<now, articles, linkedin, reddit, served, last, scoreVars, analyzeVars, unitVars>>

\* time passes
Tick ==
  /\ served # "none"
  /\ now < StartDay + MaxTicks
  /\ now' = now + 1
  /\ UNCHANGED <<articles, linkedin, reddit, served, run, last, scoreVars, analyzeVars, unitVars>>

Init == ScoreIdle /\ AnalyzeIdle /\ PipelineIdle /\ UnitIdle

Next ==
  \/ scrapeAllBlogs
  \/ scrapeBlog
  \/ scrapeBlogItem
  \/ scrapeLinkedInProfiles
  \/ scrapeLinkedInProfile
  \/ scrapeLinkedInProfileItem
  \/ scrapeSubreddits
  \/ scrapeSubreddit
  \/ processRedditPosts
  \/ returnFromRun
  \/ Tick

Spec == Init /\ [][Next]_vars

\* ------------------------------------------------------------------------
\* Properties of the pipelines
\* ------------------------------------------------------------------------
KeyCount(table, field, key) == Cardinality({i \in DOMAIN table : table[i][field] = key})

\* C2: the post_score handed to the store for a relevant item is the 70/30
\* combination of quality_score and authority, to two decimals for articles
\* and Reddit posts and as an integer percentage for LinkedIn posts (the same
\* number of hundredths), whichever way a tie is broken.
C2_WeightedScore ==
  (last.call \in {"upsertArticle", "createLinkedInContent", "createRedditContent"}
     /\ last.rel = "yes") =>
    last.score \in {ExactRound2(last.q, last.a), ExactRound2Even(last.q, last.a)}

\* C4: after a successful upsertArticle for a URL that was already stored,
\* exactly one row has that URL, and its summary and post_score are those
\* of this call.
C4_UpsertOverwrites ==
  (last.call = "upsertArticle" /\ last.ok /\ last.existed) =>
    /\ KeyCount(articles, "url", last.key) = 1
    /\ \A i \in DOMAIN articles :
         articles[i].url = last.key =>
           (articles[i].summary = last.summary /\ articles[i].post_score = last.score)

C4_Witness ==
  /\ last.call = "upsertArticle" /\ last.ok /\ last.existed
  /\ Len(articles) = 2

\* C5: every table holds at most one row per natural key: article URL,
\* LinkedIn post_id, Reddit permalink.
C5_OneRowPerKey ==
  /\ \A i, j \in DOMAIN articles : articles[i].url = articles[j].url => i = j
  /\ \A i, j \in DOMAIN linkedin : linkedin[i].post_id = linkedin[j].post_id => i = j
  /\ \A i, j \in DOMAIN reddit : reddit[i].permalink = reddit[j].permalink => i = j

\* C6: no two stored Reddit rows carry the same title and body text under
\* different permalinks.
C6_CrossPostStoredOnce ==
  \A i, j \in DOMAIN reddit :
    reddit[i].text = reddit[j].text => reddit[i].permalink = reddit[j].permalink

\* C7: an article or a Reddit post analysed as not relevant leads to no
\* upsertArticle and no createRedditContent call; a LinkedIn post analysed as
\* not relevant is handed to createLinkedInContent with post_score 0, and is
\* the newest row of the table, with post_score 0, when the INSERT succeeds.
C7_RelevanceFilter ==
  /\ (last.op = "article" /\ last.rel = "no") => last.call = "none"
  /\ (last.op = "reddit" /\ last.rel = "no") => last.call = "none"
  /\ (last.op = "linkedin" /\ last.rel = "no") =>
       /\ last.call = "createLinkedInContent"
       /\ last.score = 0
       /\ last.ok =>
            /\ linkedin # << >>
            /\ linkedin[Len(linkedin)] = [post_id |-> last.key, post_score |-> 0]

C7_Witness ==
  /\ last.op = "linkedin" /\ last.rel = "no" /\ last.ok
  /\ last.a = AuthorityOf("s1")

\* C8: an upsertArticle call is made only for an article whose resolved
\* publish date is at most 7 days before the time of the call.
C8_NoStaleArticle ==
  last.call = "upsertArticle" => last.at - last.resolved <= WeekDays

C8_Witness ==
  /\ last.op = "article" /\ last.rel = "yes"
  /\ last.resolved >= 0 /\ last.at - last.resolved > WeekDays
  /\ last.call = "none"

\* C9: a homepage text under 200 characters, an article text under 100
\* characters and a LinkedIn post under 50 characters cause no LLM call.
C9_MinContentGate ==
  /\ (last.op = "page" /\ 0 <= last.len /\ last.len < PageMinLength) => last.llm = 0
  /\ (last.op = "article" /\ 0 <= last.len /\ last.len < ArticleMinLength) => last.llm = 0
  /\ (last.op = "linkedin" /\ 0 <= last.len /\ last.len < LinkedInMinLength) => last.llm = 0

C9_Witness ==
  /\ last.op = "article" /\ last.len = ArticleMinLength - 1
  /\ last.llm = 0 /\ ~last.threw

\* C10: no item of a fetched list is left unattempted: a batch function
\* never drops the rest of a source's list after an item threw.
C10_EveryItemAttempted == ~run.lost

\* C19: every step of a run works on the source that comes next in the
\* listing or on the item that comes next in the list of the current source:
\* a step on a source is a step on the listing entry after the one of the
\* step before, and a step on an item is a step on the item after the one of
\* the step before, of the same source.
C19_ListingOrder ==
  [][(last' # last /\ last'.op # "none") =>
       /\ last'.j \in DOMAIN run.listing
       /\ last'.source = run.listing[last'.j]
       /\ IF last'.i = 0
          THEN last'.j = last.j + 1
          ELSE last'.j = last.j /\ last'.i = last.i + 1]_vars

C19_Witness ==
  /\ Len(run.listing) = MaxSources
  /\ last.j = MaxSources
  /\ last.i = MaxItems
  /\ run.pc = "sources"

\* C20: when an item of a source has been processed and another item of
\* that source follows, the pipeline has slept after it, 500 ms for a blog
\* article and 300 ms for a LinkedIn or Reddit post, whether the item was
\* saved, skipped or failed; when a source has been finished and another
\* source follows, the pipeline has slept 2000 ms.
C20_SleepBetween ==
  /\ (last.i > 0 /\ run.pc = "items") =>
       last.slept = IF last.op = "article" THEN 500 ELSE 300
  /\ (last.op # "none" /\ run.pc = "sources" /\ run.sources # << >>) =>
       run.slept = 2000

\* C26: a LinkedIn post whose post_id, or a Reddit post whose permalink, is
\* already stored is skipped before classification: no LLM call is made for
\* it and no insert is attempted.
C26_StoredKeySkipped ==
  (last.op \in {"linkedin", "reddit"} /\ last.existed) =>
    (last.llm = 0 /\ last.call \notin {"createLinkedInContent", "createRedditContent"})

\* C18: a run in which an operation asked for a credential missing from the
\* environment (the LLM key, the Apify token, the database token) does not
\* return normally: the error of that first use ends it.
C18_MissingCredentialIsFatal == run.needed => run.returned # "normal"
====
